---- MODULE Spec2Model ----
(***************************************************************************)
(* EasyResX: the synchronized multi-file mutation and undo engine of       *)
(* src/src/components/ResourceGrid.tsx (second, current version of the     *)
(* component, lines 445-1238), over the ResourceStore of spec section 6.   *)
(*                                                                         *)
(* Strings are kept as TLA+ strings.  Keys and values are at most one      *)
(* character long, so that String.prototype.includes(t) is "t is empty or  *)
(* equal".  Storage positions are 0-based as in the store's interface;     *)
(* TLA+ sequences are 1-based, so position p is the element p + 1.         *)
(***************************************************************************)
EXTENDS Integers, Sequences, FiniteSets, TLC

\* ------------------------------------------------------------------ bounds
MaxOps == 3        \* handler invocations explored along one behaviour
MaxHistory == 2    \* depth of the history log explored
MaxRejects == 1    \* handler invocations whose store calls fail on I/O
MaxDrags == 1      \* drag selections started along one behaviour
MaxEvents == 2     \* change events emitted along one behaviour
MaxTime == 1100    \* the time, in ms, up to which behaviours are followed
MaxChildren == 2   \* children of a Batch put into the log by hand
MaxLoads == 3      \* loadData() invocations along one behaviour
MaxEdits == 2      \* cell edits issued without waiting for the store
MaxScans == 3      \* scan_directory rounds along one behaviour

\* --------------------------------------------------------------- universe
\* Key names, in String.prototype.localeCompare order.
KeyOrder == <<"a", "b", "c">>
Keys == {KeyOrder[i] : i \in 1..Len(KeyOrder)}
Rank(k) == CHOOSE i \in 1..Len(KeyOrder) : KeyOrder[i] = k

\* Cell values; "" is the empty string.
Values == {"", "x"}

\* The group shown by the grid: group.files, in column order.
GroupFiles ==
    << [path |-> "en.resx", lang |-> "default"],
       [path |-> "fr.resx", lang |-> "fr"] >>
FileIdx == 1..Len(GroupFiles)
Paths == {GroupFiles[i].path : i \in FileIdx}
Langs == {GroupFiles[i].lang : i \in FileIdx}

\* group.files.find(f => f.lang === lang): the file or "none"
FindFile(lang) ==
    IF \E i \in FileIdx : GroupFiles[i].lang = lang
    THEN GroupFiles[CHOOSE i \in FileIdx : GroupFiles[i].lang = lang]
    ELSE [path |-> "none", lang |-> "none"]

\* ------------------------------------------------------- sequence helpers
Range(s) == {s[i] : i \in 1..Len(s)}
InsertAt(s, i, e) == SubSeq(s, 1, i - 1) \o <<e>> \o SubSeq(s, i, Len(s))
RemoveAt(s, i) == SubSeq(s, 1, i - 1) \o SubSeq(s, i + 1, Len(s))
Min2(a, b) == IF a <= b THEN a ELSE b
Max2(a, b) == IF a >= b THEN a ELSE b

\* ------------------------------------------------------------ ResourceStore
\* A file on disk: a sequence of entries [key, value], keys distinct.
FileKeys(file) == {file[i].key : i \in 1..Len(file)}
HasKey(file, k) == k \in FileKeys(file)
\* 1-based index of key k in the file
IndexOf(file, k) == CHOOSE i \in 1..Len(file) : file[i].key = k
KeySeq(file) == [i \in 1..Len(file) |-> file[i].key]
ValueOf(file, k) == file[IndexOf(file, k)].value

\* Every store call returns [ok, file, ret]: ok = FALSE is "error" and leaves
\* the file as it was.
Rejected(file) == [ok |-> FALSE, file |-> file, ret |-> -1]

\* setValue(file, key, value) -> ok | error
SetValue(file, k, v) ==
    IF ~HasKey(file, k) THEN Rejected(file)
    ELSE [ok |-> TRUE,
          file |-> [file EXCEPT ![IndexOf(file, k)].value = v],
          ret |-> 0]

\* insertKey(file, key, value?) -> ok | error (appends; value defaults empty)
InsertKey(file, k) ==
    IF HasKey(file, k) THEN Rejected(file)
    ELSE [ok |-> TRUE,
          file |-> Append(file, [key |-> k, value |-> ""]),
          ret |-> 0]

\* insertKeyAt(file, key, value, position) -> ok | error
InsertKeyAt(file, k, v, pos) ==
    IF HasKey(file, k) THEN Rejected(file)
    ELSE [ok |-> TRUE,
          file |-> InsertAt(file, Min2(pos, Len(file)) + 1,
                            [key |-> k, value |-> v]),
          ret |-> 0]

\* removeKey(file, key) -> position | error
RemoveKey(file, k) ==
    IF ~HasKey(file, k) THEN Rejected(file)
    ELSE [ok |-> TRUE,
          file |-> RemoveAt(file, IndexOf(file, k)),
          ret |-> IndexOf(file, k) - 1]

\* renameKey(file, oldKey, newKey) -> ok | error
RenameKey(file, old, new) ==
    IF ~HasKey(file, old) \/ (new # old /\ HasKey(file, new))
    THEN Rejected(file)
    ELSE [ok |-> TRUE,
          file |-> [file EXCEPT ![IndexOf(file, old)].key = new],
          ret |-> 0]

\* batchRemoveKeys(file, keys) -> mapping key -> position | error.
\* The position of a key is its position in the file before the call.
BatchRemoveKeys(file, ks) ==
    IF \E k \in ks : ~HasKey(file, k)
    THEN [ok |-> FALSE, file |-> file, ret |-> [k \in {} |-> 0]]
    ELSE [ok |-> TRUE,
          file |-> SelectSeq(file, LAMBDA e : e.key \notin ks),
          ret |-> [k \in ks |-> IndexOf(file, k) - 1]]

\* The item of smallest position among a non-empty set of
\* {key, value, index} items (ties by key order).
FirstItem(items) ==
    CHOOSE it \in items :
        \A o \in items :
            \/ it.index < o.index
            \/ (it.index = o.index /\ Rank(it.key) <= Rank(o.key))

RECURSIVE InsertAscending(_, _)
InsertAscending(file, items) ==
    IF items = {} THEN file
    ELSE LET it == FirstItem(items)
         IN InsertAscending(
                InsertAt(file, Min2(it.index, Len(file)) + 1,
                         [key |-> it.key, value |-> it.value]),
                items \ {it})

\* batchInsertKeys(file, items: list of {key, value, position}) -> ok | error.
\* Every item is inserted at its recorded position, lowest position first.
BatchInsertKeys(file, items) ==
    IF \E i \in 1..Len(items) :
          \/ HasKey(file, items[i].key)
          \/ \E j \in 1..Len(items) : j # i /\ items[j].key = items[i].key
    THEN Rejected(file)
    ELSE [ok |-> TRUE, file |-> InsertAscending(file, Range(items)), ret |-> 0]

\* batchSetValues(file, updates: mapping key -> value) -> ok | error
BatchSetValues(file, updates) ==
    IF \E k \in DOMAIN updates : ~HasKey(file, k) THEN Rejected(file)
    ELSE [ok |-> TRUE,
          file |-> [i \in 1..Len(file) |->
                      IF file[i].key \in DOMAIN updates
                      THEN [file[i] EXCEPT !.value = updates[file[i].key]]
                      ELSE file[i]],
          ret |-> 0]

\* loadRows(files) -> list of Row: one row per key of the union of the
\* files' keys, values[lang] present only where the file has the key.  Rows
\* come in first-appearance order (first file, then the next file's new keys).
RowOf(d, k) ==
    [key |-> k,
     values |-> [l \in {GroupFiles[i].lang :
                          i \in {j \in FileIdx : HasKey(d[GroupFiles[j].path], k)}}
                 |-> ValueOf(d[FindFile(l).path], k)]]

RECURSIVE LoadKeys(_, _)
LoadKeys(d, i) ==
    IF i = 0 THEN <<>>
    ELSE LET before == LoadKeys(d, i - 1)
         IN before \o SelectSeq(KeySeq(d[GroupFiles[i].path]),
                                LAMBDA k : k \notin Range(before))

LoadRows(d) ==
    LET ks == LoadKeys(d, Len(GroupFiles))
    IN [i \in 1..Len(ks) |-> RowOf(d, ks[i])]

\* ------------------------------------------------------------------ RowTable
\* row.values[lang] || ''
Val(row, lang) ==
    IF lang \in DOMAIN row.values THEN row.values[lang] ELSE ""

\* data.sort((a, b) => a.key.localeCompare(b.key)): stable insertion sort
RECURSIVE SortByKey(_)
SortByKey(s) ==
    IF Len(s) <= 1 THEN s
    ELSE LET rest == SortByKey(Tail(s))
             n == Cardinality({i \in 1..Len(rest) :
                                  Rank(rest[i].key) < Rank(s[1].key)})
         IN InsertAt(rest, n + 1, s[1])

\* String.prototype.toLowerCase on the strings of the model
Lower(s) == IF s = "X" THEN "x" ELSE s
\* s.includes(t) for strings of at most one character
Includes(s, t) == t = "" \/ s = t
\* !val || !val.trim()
IsBlank(v) == v = "" \/ v = " "


\* --------------------------------------------------------------------- state
VARIABLES
    disk,              \* ResourceStore: path -> file (sequence of entries)
    rows,              \* useState<RowData[]>: the RowTable snapshot
    history,           \* useState<HistoryAction[]>
    filterText,        \* useState('')
    showEmptyOnly,     \* useState(false)
    selectionAnchor,   \* useState<Point | null>
    selectionCurrent,  \* useState<Point | null>
    isMouseDown,       \* useRef(false)
    keyToDelete,       \* useState<string | null>; "" stands for null
    ops,               \* number of handler invocations so far
    rejects,           \* number of them in which store calls failed on I/O
    drags,             \* number of drag selections started so far
    last,              \* what the most recent handler did (observation)
    pre,               \* per history entry: the files before the edit (observation)
    now,               \* the time, in ms since the grid was mounted
    timers,            \* window.setTimeout: the deadlines of the pending timers
    debounceTimer,     \* let debounceTimer: number | undefined (a timer's deadline)
    watch,             \* change events and the reloads they led to (observation)
    undoing,           \* the handleUndo invocation awaiting its store calls
    undoingAgain,      \* a handleUndo invoked while `undoing` awaits, awaiting too
    loads,             \* the loadData() invocations, with their load_group request
    edits,             \* the updateCell edits issued without waiting for the store
    stale,             \* the 'resx-changed' subscription of the previous group
    groups,            \* App: useState<ResxGroup[]>, the working set
    selectedGroup,     \* App: useState<ResxGroup | null>
    settings,          \* App: loadSettings() and what get_app_settings holds
    scans,             \* number of scan_directory calls answered so far
    group,             \* the name of the `group` prop of the grid's last render
    shelf              \* ResourceStore: the files of the group not shown

\* The state of the 'resx-changed' subscription
watchVars == <<now, timers, debounceTimer, watch>>

\* The invocations that await store calls beside `undoing`
asyncVars == <<undoingAgain, loads, edits, stale>>

\* The state of App, the group the grid is rendered with, and the files of
\* the other group
appVars == <<groups, selectedGroup, settings, scans, group, shelf>>

vars == <<disk, rows, history, filterText, showEmptyOnly, selectionAnchor,
          selectionCurrent, isMouseDown, keyToDelete, ops, rejects, drags, last, pre,
          watchVars, undoing, asyncVars, appVars>>

\* Point | null
NoPoint == [rowIdx |-> -1, colIdx |-> -1]

NoAction == [type |-> "none"]
NoSnap == [clean |-> FALSE]

\* debounceTimer = undefined
NoTimer == -1
\* No change event yet, no reload yet
Never == -1
\* No handleUndo invocation is awaiting its store calls
NotUndoing == [action |-> NoAction]
\* The observation `watch` before the first change event:
\*   emitted    events the watcher has emitted and not yet delivered;
\*   delivered  events the listener has received;  lastEvent  when the last came;
\*   bursts     runs of events less than DebounceMs apart, so far;
\*   reloads    reloads the debounce timer has performed;
\*   reloadAt   when the last of them ran;  eventBefore  the last event before it.
NoWatch ==
    [emitted |-> 0, delivered |-> 0, lastEvent |-> Never, bursts |-> 0,
     reloads |-> 0, reloadAt |-> Never, eventBefore |-> Never]

\* The record kept in `last`:
\*   op      the handler; calls  the store calls it issued;
\*   failed  some store call was rejected;  reload  it called loadData();
\*   act     the history action it recorded or reversed;
\*   snap    the entry of `pre` a popped action had;  info  handler inputs;
\*   before  the files, the snapshot and the log when the handler started.
Observed(op, calls, failed, reload, act, snap, info) ==
    [op |-> op, calls |-> calls, failed |-> failed, reload |-> reload,
     act |-> act, snap |-> snap, info |-> info,
     before |-> [disk |-> disk, rows |-> rows, history |-> history]]

\* No subscription of a previous group is left
NoStale == [listening |-> FALSE, timer |-> NoTimer, group |-> ""]

\* A ResxGroup object: scan_directory builds new objects at every call, and
\* `scan` tells the objects of different calls apart (=== compares objects)
ResxGroup(name, scan) == [name |-> name, scan |-> scan]
\* selectedGroup = null
NoGroup == ResxGroup("", 0)

\* The files of group B
ShelfDisk ==
    [p \in Paths |->
        IF p = "en.resx"
        THEN << [key |-> "c", value |-> "x"], [key |-> "a", value |-> ""] >>
        ELSE << [key |-> "a", value |-> "x"], [key |-> "c", value |-> ""] >>]

\* App after startup, with both groups in the working set and group A
\* selected: the grid is rendered with group A, and no invocation awaits
\* store calls
AppInit ==
    /\ undoingAgain = NotUndoing
    /\ loads = <<>>
    /\ edits = <<>>
    /\ stale = NoStale
    /\ groups = <<ResxGroup("A", 0), ResxGroup("B", 0)>>
    /\ selectedGroup = ResxGroup("A", 0)
    /\ settings = [stage |-> "done", saved |-> {}]
    /\ scans = 0
    /\ group = "A"
    /\ shelf = ShelfDisk

\* The files with which the model starts: every file of the group has the
\* same keys, each file in its own order.
InitialDisks ==
    { [p \in Paths |->
         IF p = "en.resx"
         THEN << [key |-> "a", value |-> "x"],
                 [key |-> "b", value |-> ""],
                 [key |-> "c", value |-> "x"] >>
         ELSE << [key |-> "b", value |-> "x"],
                 [key |-> "a", value |-> "x"],
                 [key |-> "c", value |-> ""] >>],
      [p \in Paths |->
         IF p = "en.resx"
         THEN << [key |-> "b", value |-> "x"],
                 [key |-> "a", value |-> "x"] >>
         ELSE << [key |-> "a", value |-> ""],
                 [key |-> "b", value |-> "x"] >>] }

Init ==
    /\ disk \in InitialDisks
    /\ rows = <<>>
    /\ history = <<>>
    /\ filterText = ""
    /\ showEmptyOnly = FALSE
    /\ selectionAnchor = NoPoint
    /\ selectionCurrent = NoPoint
    /\ isMouseDown = FALSE
    /\ keyToDelete = ""
    /\ ops = 0
    /\ rejects = 0
    /\ drags = 0
    /\ last = Observed("init", {}, FALSE, FALSE, NoAction, NoSnap, <<>>)
    /\ pre = <<>>
    /\ now = 0
    /\ timers = {}
    /\ debounceTimer = NoTimer
    /\ watch = NoWatch
    /\ undoing = NotUndoing
    /\ AppInit

\* ------------------------------------------------------------- derived views
\* A view in which the search text replaces the show-empty-only filter
FilteredRowsOfTextFirst(rs, emptyOnly, text) ==
    IF text # ""
    THEN SelectSeq(rs, LAMBDA r :
             \/ Includes(Lower(r.key), Lower(text))
             \/ \E l \in DOMAIN r.values :
                   Includes(Lower(r.values[l]), Lower(text)))
    ELSE IF emptyOnly
    THEN SelectSeq(rs, LAMBDA r :
             \E i \in FileIdx : IsBlank(Val(r, GroupFiles[i].lang)))
    ELSE rs

\* filteredRows (useMemo)
FilteredRowsOf(rs, emptyOnly, text) ==
    LET r1 == IF emptyOnly
              THEN SelectSeq(rs, LAMBDA r :
                       \E i \in FileIdx : IsBlank(Val(r, GroupFiles[i].lang)))
              ELSE rs
    IN IF text # ""
       THEN SelectSeq(r1, LAMBDA r :
                \/ Includes(Lower(r.key), Lower(text))
                \/ \E l \in DOMAIN r.values :
                      Includes(Lower(r.values[l]), Lower(text)))
       ELSE r1

filteredRows == FilteredRowsOf(rows, showEmptyOnly, filterText)

\* A load that sorts the rows by descending key
LoadedDescending(d) ==
    LET asc == SortByKey(LoadRows(d))
    IN [i \in 1..Len(asc) |-> asc[Len(asc) + 1 - i]]

\* The rows load_group returns, sorted: what loadData() passes to setRows
Loaded(d) == SortByKey(LoadRows(d))

\* A store call on path p: rejected by an I/O failure when p is in rej
Call(p, rej, d, result) == IF p \in rej THEN Rejected(d[p]) ELSE result
\* await Promise.all(...) resolves
Joined(out) == \A p \in DOMAIN out : out[p].ok
FilesAfter(d, out) ==
    [p \in Paths |-> IF p \in DOMAIN out THEN out[p].file ELSE d[p]]

\* The observation stack `pre` after a handler: an entry per recorded action;
\* a change of the files that no recorded action accounts for spoils it.
Spoil(s) == [i \in 1..Len(s) |-> [s[i] EXCEPT !.clean = FALSE]]
PreAfterEdit(joined, d2) ==
    IF joined
    THEN Append(pre, [clean |-> TRUE, disk |-> disk, group |-> group])
    ELSE IF d2 # disk THEN Spoil(pre) ELSE pre


\* ------------------------------------------------------------------ loadData
\* loadData(): load_group, sort, setRows.  Runs on mount and when the
\* debounced 'resx-changed' callback fires.
LoadData ==
    /\ rows' = Loaded(disk)
    /\ last' = Observed("load", {}, FALSE, TRUE, NoAction, NoSnap, <<>>)
    /\ UNCHANGED <<watchVars, undoing, asyncVars, appVars>>
    /\ UNCHANGED <<disk, history, filterText, showEmptyOnly, selectionAnchor,
                   selectionCurrent, isMouseDown, keyToDelete, ops, rejects, drags, pre>>

\* ---------------------------------------------------------------------- undo
\* A reversal that ignores the recorded storage position
UndoDeleteIndexDefault(action, path) == 0

\* case 'delete': the index at which a file gets its key back
UndoDeleteIndex(action, path) ==
    IF path \in DOMAIN action.indices THEN action.indices[path] ELSE 0

\* insertsByFile filled without the recorded positions
BatchInsertItemsAtFront(actions, file) ==
    [i \in 1..Len(actions) |->
        [key |-> actions[i].key,
         value |-> Val(actions[i].row, file.lang),
         index |-> 0]]

\* case 'batch', all children 'delete': insertsByFile.get(path)
BatchInsertItems(actions, file) ==
    [i \in 1..Len(actions) |->
        [key |-> actions[i].key,
         value |-> Val(actions[i].row, file.lang),
         index |-> UndoDeleteIndex(actions[i], file.path)]]

\* case 'batch', all children 'update': updatesByPath.get(path); a later
\* child overwrites an earlier one of the same key
BatchUpdateMap(actions, file) ==
    LET mine == {i \in 1..Len(actions) : actions[i].lang = file.lang}
    IN [k \in {actions[i].key : i \in mine} |->
          actions[CHOOSE i \in mine :
                     /\ actions[i].key = k
                     /\ \A j \in mine : actions[j].key = k => j <= i].oldValue]

\* What performUndoAction leaves: the files, whether it threw, whether a
\* store call was rejected, and the calls it issued.
UndoResult(d, out, threw, calls) ==
    [disk |-> FilesAfter(d, out), threw |-> threw,
     failed |-> ~Joined(out), calls |-> calls]

\* The optimized batch branches catch the rejection of their store calls
\* (try/catch around Promise.all): nothing propagates to handleUndo.
BatchUndoThrows(out) == FALSE

RECURSIVE PerformUndoAction(_, _, _)
RECURSIVE UndoChildren(_, _, _, _)
RECURSIVE UndoChildrenForward(_, _, _, _)

\* A fallback that reverses the children from the first to the last
UndoChildrenForward(actions, i, d, rej) ==
    IF i = 0
    THEN [disk |-> d, threw |-> FALSE, failed |-> FALSE, calls |-> {}]
    ELSE LET r == PerformUndoAction(actions[Len(actions) - i + 1], d, rej)
         IN IF r.threw THEN r
            ELSE LET rest == UndoChildrenForward(actions, i - 1, r.disk, rej)
                 IN [disk |-> rest.disk, threw |-> rest.threw,
                     failed |-> r.failed \/ rest.failed,
                     calls |-> r.calls \cup rest.calls]

\* the sequential fallback: children from the last to the first, stopping
\* at the first child that throws
UndoChildren(actions, i, d, rej) ==
    IF i = 0
    THEN [disk |-> d, threw |-> FALSE, failed |-> FALSE, calls |-> {}]
    ELSE LET r == PerformUndoAction(actions[i], d, rej)
         IN IF r.threw THEN r
            ELSE LET rest == UndoChildren(actions, i - 1, r.disk, rej)
                 IN [disk |-> rest.disk, threw |-> rest.threw,
                     failed |-> r.failed \/ rest.failed,
                     calls |-> r.calls \cup rest.calls]

PerformUndoAction(action, d, rej) ==
    CASE action.type = "update" ->
           LET file == FindFile(action.lang)
           IN IF file.path \in Paths
              THEN LET out == [p \in {file.path} |->
                                 Call(p, rej, d,
                                      SetValue(d[p], action.key, action.oldValue))]
                   IN UndoResult(d, out, ~Joined(out),
                         {[cmd |-> "update_resource", path |-> file.path,
                           key |-> action.key, arg |-> action.oldValue]})
              ELSE [disk |-> d, threw |-> FALSE, failed |-> FALSE, calls |-> {}]
      [] action.type = "rename" ->
           LET out == [p \in Paths |->
                         Call(p, rej, d,
                              RenameKey(d[p], action.newKey, action.oldKey))]
           IN UndoResult(d, out, ~Joined(out),
                 {[cmd |-> "rename_key", path |-> p,
                   key |-> action.newKey, arg |-> action.oldKey] : p \in Paths})
      [] action.type = "add" ->
           LET out == [p \in Paths |->
                         Call(p, rej, d, RemoveKey(d[p], action.key))]
           IN UndoResult(d, out, ~Joined(out),
                 {[cmd |-> "remove_key", path |-> p,
                   key |-> action.key, arg |-> ""] : p \in Paths})
      [] action.type = "delete" ->
           LET out == [p \in Paths |->
                         LET f == GroupFiles[CHOOSE i \in FileIdx :
                                                GroupFiles[i].path = p]
                         IN Call(p, rej, d,
                                 InsertKeyAt(d[p], action.key,
                                             Val(action.row, f.lang),
                                             UndoDeleteIndex(action, p)))]
           IN UndoResult(d, out, ~Joined(out),
                 {[cmd |-> "insert_key", path |-> p,
                   key |-> action.key, arg |-> UndoDeleteIndex(action, p)]
                    : p \in Paths})
      [] action.type = "batch" ->
           LET acts == action.actions
               allDelete == Len(acts) > 0
                            /\ \A i \in 1..Len(acts) : acts[i].type = "delete"
               allUpdate == Len(acts) > 0
                            /\ \A i \in 1..Len(acts) : acts[i].type = "update"
           IN IF allDelete
              THEN LET out == [p \in Paths |->
                                 LET f == GroupFiles[CHOOSE i \in FileIdx :
                                                        GroupFiles[i].path = p]
                                 IN Call(p, rej, d,
                                         BatchInsertKeys(d[p],
                                             BatchInsertItems(acts, f)))]
                   IN UndoResult(d, out, BatchUndoThrows(out),
                         {[cmd |-> "batch_insert_keys", path |-> p,
                           key |-> "", arg |-> ""] : p \in Paths})
              ELSE IF allUpdate
              THEN LET touched == {FindFile(acts[i].lang).path :
                                      i \in 1..Len(acts)} \cap Paths
                       out == [p \in touched |->
                                 LET f == GroupFiles[CHOOSE i \in FileIdx :
                                                        GroupFiles[i].path = p]
                                 IN Call(p, rej, d,
                                         BatchSetValues(d[p],
                                             BatchUpdateMap(acts, f)))]
                   IN UndoResult(d, out, BatchUndoThrows(out),
                         {[cmd |-> "batch_update_resources", path |-> p,
                           key |-> "", arg |-> ""] : p \in touched})
              ELSE UndoChildren(acts, Len(acts), d, rej)

\* setHistory(prev => prev.slice(0, -1)) runs unless performUndoAction threw
HistoryAfterUndo(threw) ==
    IF threw THEN history ELSE SubSeq(history, 1, Len(history) - 1)

\* handleUndo (Ctrl+Z)
HandleUndo(rej) ==
    /\ Len(history) > 0
    /\ LET action == history[Len(history)]
           r == PerformUndoAction(action, disk, rej)
           h2 == HistoryAfterUndo(r.threw)
           popped == Len(h2) < Len(history)
           rest == IF popped THEN SubSeq(pre, 1, Len(pre) - 1) ELSE pre
       IN /\ disk' = r.disk
          /\ history' = h2
          /\ pre' = IF r.failed /\ (popped \/ r.disk # disk)
                    THEN Spoil(rest) ELSE rest
          /\ last' = Observed("undo", r.calls, r.failed, FALSE, action,
                              pre[Len(pre)], <<popped>>)
    /\ ops' = ops + 1
    /\ rejects' = rejects + (IF rej = {} THEN 0 ELSE 1)
    /\ drags' = drags
    /\ UNCHANGED <<watchVars, undoing, asyncVars, appVars>>
    /\ UNCHANGED <<rows, filterText, showEmptyOnly, selectionAnchor,
                   selectionCurrent, isMouseDown, keyToDelete>>


\* handleUndo in two steps.  Up to its await: the action on top of the log
\* is read and performUndoAction issues its store calls, which the store
\* handles as they arrive; the event loop then runs other handlers until the
\* calls have answered.  One undo is in flight at a time.
UndoBegin(rej) ==
    /\ undoing = NotUndoing
    /\ Len(history) > 0
    /\ LET action == history[Len(history)]
           r == PerformUndoAction(action, disk, rej)
       IN /\ disk' = r.disk
          /\ undoing' = [action |-> action, threw |-> r.threw,
                         failed |-> r.failed, calls |-> r.calls,
                         top |-> Len(history)]
          /\ pre' = Spoil(pre)
          /\ last' = Observed("undoBegin", r.calls, r.failed, FALSE, action,
                              NoSnap, <<>>)
    /\ ops' = ops + 1
    /\ rejects' = rejects + (IF rej = {} THEN 0 ELSE 1)
    /\ UNCHANGED <<watchVars, drags, asyncVars, appVars>>
    /\ UNCHANGED <<rows, history, filterText, showEmptyOnly, selectionAnchor,
                   selectionCurrent, isMouseDown, keyToDelete>>

\* handleUndo after its await: setHistory(prev => prev.slice(0, -1)) on the
\* log as it is by then, or the catch block
UndoFinish ==
    /\ undoing # NotUndoing
    /\ history' = HistoryAfterUndo(undoing.threw)
    /\ pre' = IF undoing.threw THEN pre ELSE SubSeq(pre, 1, Len(pre) - 1)
    /\ undoing' = NotUndoing
    /\ last' = Observed("undoEnd", {}, undoing.failed, FALSE, undoing.action,
                        NoSnap, <<~undoing.threw, undoing.top>>)
    /\ UNCHANGED <<watchVars, asyncVars, appVars>>
    /\ UNCHANGED <<disk, rows, filterText, showEmptyOnly, selectionAnchor,
                   selectionCurrent, isMouseDown, keyToDelete, ops, rejects,
                   drags>>

\* Ctrl+Z pressed again while the first handleUndo awaits: the listener's
\* closure holds the log as last rendered, which the first invocation has not
\* changed yet.  `top` is the length of the log the invocation read.
UndoAgain(rej) ==
    /\ undoing # NotUndoing
    /\ undoingAgain = NotUndoing
    /\ Len(history) > 0
    /\ LET action == history[Len(history)]
           r == PerformUndoAction(action, disk, rej)
       IN /\ disk' = r.disk
          /\ undoingAgain' = [action |-> action, threw |-> r.threw,
                              failed |-> r.failed, calls |-> r.calls,
                              top |-> Len(history)]
          /\ pre' = Spoil(pre)
          /\ last' = Observed("undoAgain", r.calls, r.failed, FALSE, action,
                              NoSnap, <<>>)
    /\ ops' = ops + 1
    /\ rejects' = rejects + (IF rej = {} THEN 0 ELSE 1)
    /\ UNCHANGED <<watchVars, drags, undoing, loads, edits, stale, appVars>>
    /\ UNCHANGED <<rows, history, filterText, showEmptyOnly, selectionAnchor,
                   selectionCurrent, isMouseDown, keyToDelete>>

\* The second handleUndo after its await
UndoAgainFinish ==
    /\ undoingAgain # NotUndoing
    /\ history' = HistoryAfterUndo(undoingAgain.threw)
    /\ pre' = IF undoingAgain.threw THEN pre ELSE SubSeq(pre, 1, Len(pre) - 1)
    /\ undoingAgain' = NotUndoing
    /\ last' = Observed("undoAgainEnd", {}, undoingAgain.failed, FALSE,
                        undoingAgain.action, NoSnap,
                        <<~undoingAgain.threw, undoingAgain.top>>)
    /\ UNCHANGED <<watchVars, undoing, loads, edits, stale, appVars>>
    /\ UNCHANGED <<disk, rows, filterText, showEmptyOnly, selectionAnchor,
                   selectionCurrent, isMouseDown, keyToDelete, ops, rejects,
                   drags>>

\* ------------------------------------------------------------ handleRowsChange
\* const oldRow = rows[indexes[0]]
OldRow(idx) == rows[idx]

\* The row the cell editor hands back for the displayed row: the key column
\* replaces the key, a language column sets values[lang]
UpdatedRow(row, column, typed) ==
    IF column = "key" THEN [row EXCEPT !.key = typed]
    ELSE [row EXCEPT !.values =
             [l \in (DOMAIN row.values) \cup {column} |->
                 IF l = column THEN typed ELSE row.values[l]]]

\* A catch block that keeps the optimistic snapshot
RowsKeptAfterRejectedEdit(newRows, d2) == newRows

\* catch (e) { ...; loadData(); }: the snapshot after a rejected edit
RowsAfterRejectedEdit(newRows, d2) == Loaded(d2)

\* pushHistory after the awaited store calls of handleRowsChange
HistoryAfterEdit(joined, action) ==
    IF joined THEN Append(history, action) ELSE history

\* handleRowsChange(newRows, {indexes: [idx - 1], column}): the grid shows
\* filteredRows, so newRows is filteredRows with the edited row replaced.
HandleRowsChange(idx, column, typed, rej) ==
    /\ idx \in 1..Len(filteredRows)
    /\ LET shown == filteredRows[idx]
           updatedRow == UpdatedRow(shown, column, typed)
           newRows == [filteredRows EXCEPT ![idx] = updatedRow]
           oldRow == OldRow(idx)
           info == [shown |-> shown, oldRow |-> oldRow, column |-> column,
                    typed |-> typed]
       IN IF column = "key"
          THEN IF updatedRow.key # oldRow.key
               THEN LET out == [p \in Paths |->
                                  Call(p, rej, disk,
                                       RenameKey(disk[p], oldRow.key,
                                                 updatedRow.key))]
                        d2 == FilesAfter(disk, out)
                        action == [type |-> "rename", oldKey |-> oldRow.key,
                                   newKey |-> updatedRow.key]
                    IN /\ disk' = d2
                       /\ history' = HistoryAfterEdit(Joined(out), action)
                       /\ rows' = IF Joined(out) THEN newRows
                                  ELSE RowsAfterRejectedEdit(newRows, d2)
                       /\ pre' = PreAfterEdit(Joined(out), d2)
                       /\ last' = Observed("rename",
                             {[cmd |-> "rename_key", path |-> p,
                               key |-> oldRow.key, arg |-> updatedRow.key]
                                : p \in Paths},
                             ~Joined(out), ~Joined(out), action, NoSnap, info)
               ELSE /\ rows' = newRows
                    /\ last' = Observed("rename", {}, FALSE, FALSE, NoAction,
                                        NoSnap, info)
                    /\ UNCHANGED <<disk, history, pre>>
          ELSE LET lang == column
                   newValue == Val(updatedRow, lang)
                   oldValue == Val(oldRow, lang)
                   file == FindFile(lang)
               IN IF newValue # oldValue /\ file.path \in Paths
                  THEN LET out == [p \in {file.path} |->
                                     Call(p, rej, disk,
                                          SetValue(disk[p], updatedRow.key,
                                                   newValue))]
                           d2 == FilesAfter(disk, out)
                           action == [type |-> "update", key |-> updatedRow.key,
                                      lang |-> lang, oldValue |-> oldValue,
                                      newValue |-> newValue]
                       IN /\ disk' = d2
                          /\ history' = HistoryAfterEdit(Joined(out), action)
                          /\ rows' = IF Joined(out) THEN newRows
                                     ELSE RowsAfterRejectedEdit(newRows, d2)
                          /\ pre' = PreAfterEdit(Joined(out), d2)
                          /\ last' = Observed("update",
                                {[cmd |-> "update_resource", path |-> file.path,
                                  key |-> updatedRow.key, arg |-> newValue]},
                                ~Joined(out), ~Joined(out), action, NoSnap, info)
                  ELSE /\ rows' = newRows
                       /\ last' = Observed("update", {}, FALSE, FALSE, NoAction,
                                           NoSnap, info)
                       /\ UNCHANGED <<disk, history, pre>>
    /\ ops' = ops + 1
    /\ rejects' = rejects + (IF rej = {} THEN 0 ELSE 1)
    /\ drags' = drags
    /\ UNCHANGED <<watchVars, undoing, asyncVars, appVars>>
    /\ UNCHANGED <<filterText, showEmptyOnly, selectionAnchor,
                   selectionCurrent, isMouseDown, keyToDelete>>

\* ---------------------------------------------------------------- handleAddKey
\* An addition that leaves the log as it is
AddKeyHistoryUnrecorded(joined, action) == history

\* pushHistory after the awaited add_key calls
AddKeyHistory(joined, action) ==
    IF joined THEN Append(history, action) ELSE history

\* handleAddKey with newKeyName = name
HandleAddKey(name, rej) ==
    /\ name # ""
    /\ LET out == [p \in Paths |-> Call(p, rej, disk, InsertKey(disk[p], name))]
           d2 == FilesAfter(disk, out)
           action == [type |-> "add", key |-> name]
       IN /\ disk' = d2
          /\ history' = AddKeyHistory(Joined(out), action)
          /\ rows' = IF Joined(out) THEN Loaded(d2) ELSE rows
          /\ pre' = PreAfterEdit(Joined(out), d2)
          /\ last' = Observed("add",
                {[cmd |-> "add_key", path |-> p, key |-> name, arg |-> ""]
                   : p \in Paths},
                ~Joined(out), Joined(out), action, NoSnap,
                <<>>)
    /\ ops' = ops + 1
    /\ rejects' = rejects + (IF rej = {} THEN 0 ELSE 1)
    /\ drags' = drags
    /\ UNCHANGED <<watchVars, undoing, asyncVars, appVars>>
    /\ UNCHANGED <<filterText, showEmptyOnly, selectionAnchor,
                   selectionCurrent, isMouseDown, keyToDelete>>

\* -------------------------------------------------------------- handleClearCell
ClearCellHistory(joined, action) ==
    IF joined THEN Append(history, action) ELSE history

\* "Clear Value" of the context menu opened on displayed row idx, column
HandleClearCell(idx, columnKey, rej) ==
    /\ idx \in 1..Len(filteredRows)
    /\ columnKey # "key"
    /\ FindFile(columnKey).path \in Paths
    /\ Val(filteredRows[idx], columnKey) # ""
    /\ LET row == filteredRows[idx]
           lang == columnKey
           file == FindFile(lang)
           out == [p \in {file.path} |->
                     Call(p, rej, disk, SetValue(disk[p], row.key, ""))]
           d2 == FilesAfter(disk, out)
           action == [type |-> "update", key |-> row.key, lang |-> lang,
                      oldValue |-> Val(row, lang), newValue |-> ""]
       IN /\ disk' = d2
          /\ history' = ClearCellHistory(Joined(out), action)
          /\ pre' = PreAfterEdit(Joined(out), d2)
          /\ last' = Observed("clear",
                {[cmd |-> "update_resource", path |-> file.path,
                  key |-> row.key, arg |-> ""]},
                ~Joined(out), FALSE, action, NoSnap, <<>>)
    /\ ops' = ops + 1
    /\ rejects' = rejects + (IF rej = {} THEN 0 ELSE 1)
    /\ drags' = drags
    /\ UNCHANGED <<watchVars, undoing, asyncVars, appVars>>
    /\ UNCHANGED <<rows, filterText, showEmptyOnly, selectionAnchor,
                   selectionCurrent, isMouseDown, keyToDelete>>

\* -------------------------------------------------------------- handleDeleteKey
\* rows.find(r => r.key === keyToDelete)
FindRow(k) == rows[CHOOSE i \in 1..Len(rows) :
                      /\ rows[i].key = k
                      /\ \A j \in 1..(i - 1) : rows[j].key # k]

\* A deletion that records its action whether or not the calls succeeded
DeleteKeyHistoryAlways(joined, action) == Append(history, action)

\* pushHistory after the awaited remove_key calls
DeleteKeyHistory(joined, action) ==
    IF joined THEN Append(history, action) ELSE history

\* handleDeleteKey (the dialog's Delete button) with keyToDelete = key
DeleteKey(key, rej) ==
    /\ key # ""
    /\ \E i \in 1..Len(rows) : rows[i].key = key
    /\ LET rowToDelete == FindRow(key)
           out == [p \in Paths |->
                     Call(p, rej, disk, RemoveKey(disk[p], key))]
           d2 == FilesAfter(disk, out)
           indices == [p \in Paths |-> out[p].ret]
           action == [type |-> "delete", key |-> key,
                      row |-> rowToDelete, indices |-> indices]
       IN /\ disk' = d2
          /\ history' = DeleteKeyHistory(Joined(out), action)
          /\ keyToDelete' = IF Joined(out) THEN "" ELSE key
          /\ pre' = PreAfterEdit(Joined(out), d2)
          /\ last' = Observed("delete",
                {[cmd |-> "remove_key", path |-> p, key |-> key,
                  arg |-> ""] : p \in Paths},
                ~Joined(out), FALSE, action, NoSnap, <<>>)
    /\ ops' = ops + 1
    /\ rejects' = rejects + (IF rej = {} THEN 0 ELSE 1)
    /\ drags' = drags
    /\ UNCHANGED <<watchVars, undoing, asyncVars, appVars>>
    /\ UNCHANGED <<rows, filterText, showEmptyOnly, selectionAnchor,
                   selectionCurrent, isMouseDown>>

\* "Delete Key" of the context menu opened on displayed row idx
\* (setKeyToDelete(contextMenu.row.key), the modal dialog opens), then the
\* dialog's Delete button: nothing else happens while the dialog is open
HandleDeleteKey(idx, rej) ==
    /\ keyToDelete = ""
    /\ idx \in 1..Len(filteredRows)
    /\ DeleteKey(filteredRows[idx].key, rej)

\* The Delete button pressed again in the dialog that a failed deletion
\* left open
RetryDeleteKey(rej) ==
    /\ keyToDelete # ""
    /\ DeleteKey(keyToDelete, rej)

\* The dialog's Cancel button (the dialog closes; keyToDelete is not read
\* again before the next setKeyToDelete)
CancelDeleteKey ==
    /\ keyToDelete # ""
    /\ keyToDelete' = ""
    /\ UNCHANGED <<watchVars, undoing, asyncVars, appVars>>
    /\ UNCHANGED <<disk, rows, history, filterText, showEmptyOnly,
                   selectionAnchor, selectionCurrent, isMouseDown, ops,
                   rejects, drags, last, pre>>

\* ----------------------------------------------------------------------- filter
\* onChange of the search box
SetFilterText(text) ==
    /\ text # filterText
    /\ filterText' = text
    /\ UNCHANGED <<watchVars, undoing, asyncVars, appVars>>
    /\ UNCHANGED <<disk, rows, history, showEmptyOnly, selectionAnchor,
                   selectionCurrent, isMouseDown, keyToDelete, ops, rejects, drags, last, pre>>

\* onClick of the filter button
ToggleShowEmptyOnly ==
    /\ showEmptyOnly' = ~showEmptyOnly
    /\ UNCHANGED <<watchVars, undoing, asyncVars, appVars>>
    /\ UNCHANGED <<disk, rows, history, filterText, selectionAnchor,
                   selectionCurrent, isMouseDown, keyToDelete, ops, rejects, drags, last, pre>>


\* -------------------------------------------------------------------- selection
\* The cells of the grid as rendered: displayed rows x (key column + languages)
ShownCells ==
    {[rowIdx |-> r, colIdx |-> c] :
        r \in 0..(Len(filteredRows) - 1), c \in 0..Len(GroupFiles)}

\* onMouseDown on a cell with the left button
MouseDown(pt) ==
    /\ pt \in ShownCells
    /\ isMouseDown' = TRUE
    /\ selectionAnchor' = pt
    /\ selectionCurrent' = pt
    /\ drags' = drags + 1
    /\ UNCHANGED <<watchVars, undoing, asyncVars, appVars>>
    /\ UNCHANGED <<disk, rows, history, filterText, showEmptyOnly, keyToDelete,
                   ops, rejects, last, pre>>

\* A pointer-enter that extends the selection whether or not a button is held
MouseEnterUnheld(pt) ==
    /\ pt \in ShownCells
    /\ selectionCurrent' = pt
    /\ UNCHANGED <<watchVars, undoing, asyncVars, appVars>>
    /\ UNCHANGED <<disk, rows, history, filterText, showEmptyOnly,
                   selectionAnchor, isMouseDown, keyToDelete, ops, rejects, drags, last, pre>>

\* onMouseEnter on a cell
MouseEnter(pt) ==
    /\ pt \in ShownCells
    /\ isMouseDown
    /\ selectionCurrent' = pt
    /\ UNCHANGED <<watchVars, undoing, asyncVars, appVars>>
    /\ UNCHANGED <<disk, rows, history, filterText, showEmptyOnly,
                   selectionAnchor, isMouseDown, keyToDelete, ops, rejects, drags, last, pre>>

\* A pointer-up that also empties the selection
MouseUpClearsSelection ==
    /\ isMouseDown
    /\ isMouseDown' = FALSE
    /\ selectionAnchor' = NoPoint
    /\ selectionCurrent' = NoPoint
    /\ UNCHANGED <<watchVars, undoing, asyncVars, appVars>>
    /\ UNCHANGED <<disk, rows, history, filterText, showEmptyOnly,
                   keyToDelete, ops, rejects, drags, last, pre>>

\* handleGlobalMouseUp (window 'mouseup')
MouseUp ==
    /\ isMouseDown
    /\ isMouseDown' = FALSE
    /\ UNCHANGED <<watchVars, undoing, asyncVars, appVars>>
    /\ UNCHANGED <<disk, rows, history, filterText, showEmptyOnly,
                   selectionAnchor, selectionCurrent, keyToDelete, ops, rejects, drags,
                   last, pre>>

\* A range that takes the anchor as its start and current as its end
selectionRangeAnchorFirst ==
    [startRow |-> selectionAnchor.rowIdx,
     endRow |-> selectionCurrent.rowIdx,
     startCol |-> selectionAnchor.colIdx,
     endCol |-> selectionCurrent.colIdx]

\* selectionRange (useMemo)
HasSelection == selectionAnchor # NoPoint /\ selectionCurrent # NoPoint
selectionRange ==
    [startRow |-> Min2(selectionAnchor.rowIdx, selectionCurrent.rowIdx),
     endRow |-> Max2(selectionAnchor.rowIdx, selectionCurrent.rowIdx),
     startCol |-> Min2(selectionAnchor.colIdx, selectionCurrent.colIdx),
     endCol |-> Max2(selectionAnchor.colIdx, selectionCurrent.colIdx)]

\* isCellSelected(rowIdx, colIdx)
isCellSelected(rowIdx, colIdx) ==
    /\ HasSelection
    /\ rowIdx >= selectionRange.startRow /\ rowIdx <= selectionRange.endRow
    /\ colIdx >= selectionRange.startCol /\ colIdx <= selectionRange.endCol

\* ------------------------------------------------------------ handleGridKeyDown
\* Rows are deleted only when the key column alone is selected
RowsToDeleteIndexKeyOnly(range) ==
    IF range.startCol = 0 /\ range.endCol = 0
    THEN [i \in 1..(range.endRow - range.startRow + 1) |->
             range.startRow + i - 1]
    ELSE <<>>

\* rowsToDeleteIndex, sorted: the selected rows when the key column (0) is
\* inside the selected columns
RowsToDeleteIndex(range) ==
    IF range.startCol <= 0 /\ 0 <= range.endCol
    THEN [i \in 1..(range.endRow - range.startRow + 1) |->
             range.startRow + i - 1]
    ELSE <<>>

\* A key-column branch that reads the unfiltered snapshot
RowToDeleteAtSnapshot(i) == rows[i + 1]

\* filteredRows[i] of the key-column branch (sortedIndices.map(...))
RowToDeleteAt(i) == filteredRows[i + 1]

\* cellsToClear: column by column, row by row, skipping rows that are not
\* displayed (if (row) ...)
CellsToClear(range) ==
    LET c1 == Max2(range.startCol, 1)
        nr == range.endRow - range.startRow + 1
        nc == Max2(range.endCol - c1 + 1, 0)
        all == [i \in 1..(nr * nc) |->
                  [rowIdx |-> range.startRow + ((i - 1) % nr),
                   colIdx |-> c1 + ((i - 1) \div nr)]]
        seen == SelectSeq(all, LAMBDA e :
                    e.rowIdx + 1 \in 1..Len(filteredRows)
                    /\ e.colIdx \in 1..Len(GroupFiles))
    IN [i \in 1..Len(seen) |->
          [rowIdx |-> seen[i].rowIdx,
           lang |-> GroupFiles[seen[i].colIdx].lang,
           oldValue |-> Val(filteredRows[seen[i].rowIdx + 1],
                            GroupFiles[seen[i].colIdx].lang),
           key |-> filteredRows[seen[i].rowIdx + 1].key]]

\* A clear that keeps the cells that are already empty
ToClearAll(cells) == cells

\* cellsToClear.filter(c => c.oldValue !== '')
ToClear(cells) == SelectSeq(cells, LAMBDA c : c.oldValue # "")

\* updatesByFile.get(path): key -> "" for the cells of the file's language
ClearMap(toClear, file) ==
    [k \in {toClear[i].key : i \in {j \in 1..Len(toClear) :
                                       toClear[j].lang = file.lang}} |-> ""]

\* indicesByKey[key] filled from the answer of the first file only
IndicesByKeyFirstFile(out, k) ==
    [p \in {q \in {GroupFiles[1].path} : out[q].ok /\ k \in DOMAIN out[q].ret} |->
        out[p].ret[k]]

\* indicesByKey[key]: path -> the position batch_remove_keys reported
IndicesByKey(out, k) ==
    [p \in {q \in Paths : out[q].ok /\ k \in DOMAIN out[q].ret} |->
        out[p].ret[k]]

\* A batch that runs whatever ask() answered
ConfirmedAnyway(answer) == TRUE

\* if (confirmed) { ... }: the answer of ask() gates the batch
Confirmed(answer) == answer

BatchDeleteHistory(joined, action) ==
    IF joined THEN Append(history, action) ELSE history

BatchClearHistory(joined, action) ==
    IF joined THEN Append(history, action) ELSE history

\* handleGridKeyDown for Delete / Backspace; confirmed is what ask() returns
HandleGridKeyDown(confirmed, rej) ==
    /\ HasSelection
    /\ LET range == selectionRange
           idxs == RowsToDeleteIndex(range)
           cells == CellsToClear(range)
           info == [range |-> range, shown |-> filteredRows,
                    confirmed |-> confirmed]
       IN IF Len(idxs) > 0
          THEN IF \E i \in 1..Len(idxs) : idxs[i] + 1 \notin 1..Len(filteredRows)
               THEN \* rowsToDelete.map(r => r.key) throws on an undefined row
                    /\ confirmed
                    /\ rej = {}
                    /\ last' = Observed("batchDelete", {}, FALSE, FALSE,
                                        NoAction, NoSnap, info)
                    /\ UNCHANGED <<disk, history, pre, selectionAnchor,
                                   selectionCurrent>>
               ELSE IF ~Confirmed(confirmed)
               THEN /\ rej = {}
                    /\ last' = Observed("batchDelete", {}, FALSE, FALSE,
                                        NoAction, NoSnap, info)
                    /\ UNCHANGED <<disk, history, pre, selectionAnchor,
                                   selectionCurrent>>
               ELSE LET rowsToDelete == [i \in 1..Len(idxs) |->
                                            RowToDeleteAt(idxs[i])]
                        keys == {rowsToDelete[i].key : i \in 1..Len(idxs)}
                        out == [p \in Paths |->
                                  Call(p, rej, disk,
                                       BatchRemoveKeys(disk[p], keys))]
                        d2 == FilesAfter(disk, out)
                        indicesOf(k) == IndicesByKey(out, k)
                        action == [type |-> "batch",
                                   actions |->
                                     [i \in 1..Len(rowsToDelete) |->
                                        [type |-> "delete",
                                         key |-> rowsToDelete[i].key,
                                         row |-> rowsToDelete[i],
                                         indices |->
                                            indicesOf(rowsToDelete[i].key)]]]
                    IN /\ disk' = d2
                       /\ history' = BatchDeleteHistory(Joined(out), action)
                       /\ pre' = PreAfterEdit(Joined(out), d2)
                       /\ selectionAnchor' =
                             IF Joined(out) THEN NoPoint ELSE selectionAnchor
                       /\ selectionCurrent' =
                             IF Joined(out) THEN NoPoint ELSE selectionCurrent
                       /\ last' = Observed("batchDelete",
                             {[cmd |-> "batch_remove_keys", path |-> p,
                               key |-> "", arg |-> keys] : p \in Paths},
                             ~Joined(out), FALSE, action, NoSnap, info)
          ELSE /\ Len(ToClear(cells)) > 0
               /\ IF ~Confirmed(confirmed)
                  THEN /\ rej = {}
                       /\ last' = Observed("batchClear", {}, FALSE, FALSE,
                                           NoAction, NoSnap, info)
                       /\ UNCHANGED <<disk, history, pre>>
                  ELSE LET toClear == ToClear(cells)
                           touched == {FindFile(toClear[i].lang).path :
                                          i \in 1..Len(toClear)} \cap Paths
                           out == [p \in touched |->
                                     LET f == GroupFiles[CHOOSE i \in FileIdx :
                                                 GroupFiles[i].path = p]
                                     IN Call(p, rej, disk,
                                             BatchSetValues(disk[p],
                                                 ClearMap(toClear, f)))]
                           d2 == FilesAfter(disk, out)
                           action == [type |-> "batch",
                                      actions |->
                                        [i \in 1..Len(toClear) |->
                                           [type |-> "update",
                                            key |-> toClear[i].key,
                                            lang |-> toClear[i].lang,
                                            oldValue |-> toClear[i].oldValue,
                                            newValue |-> ""]]]
                       IN /\ disk' = d2
                          /\ history' = BatchClearHistory(Joined(out), action)
                          /\ pre' = PreAfterEdit(Joined(out), d2)
                          /\ last' = Observed("batchClear",
                                {[cmd |-> "batch_update_resources", path |-> p,
                                  key |-> "", arg |-> ClearMap(toClear,
                                      GroupFiles[CHOOSE i \in FileIdx :
                                                    GroupFiles[i].path = p])]
                                   : p \in touched},
                                ~Joined(out), FALSE, action, NoSnap, info)
               /\ UNCHANGED <<selectionAnchor, selectionCurrent>>
    /\ ops' = ops + 1
    /\ rejects' = rejects + (IF rej = {} THEN 0 ELSE 1)
    /\ drags' = drags
    /\ UNCHANGED <<watchVars, undoing, asyncVars, appVars>>
    /\ UNCHANGED <<rows, filterText, showEmptyOnly, isMouseDown, keyToDelete>>

\* ------------------------------------------------------------ change watcher
\* The delay passed to window.setTimeout, in ms
DebounceMs == 500

\* The steps by which the time is followed, in ms
Delays == {100, 400, 500}

\* A returned timer does not run
ClearTimeoutSkipped(pending, handle) == pending

\* if (debounceTimer) clearTimeout(debounceTimer)
ClearTimeout(pending, handle) ==
    IF handle # NoTimer THEN pending \ {handle} ELSE pending

\* A timer that is due at once
TimerDeadlineAtOnce(t) == t

\* window.setTimeout(..., 500) called at time t: when the callback is due
TimerDeadline(t) == t + DebounceMs

\* Another program writes a value into a file of the watched directory; the
\* watcher emits a change event.
ExternalWrite(p, k, v) ==
    /\ watch.emitted + watch.delivered < MaxEvents
    /\ HasKey(disk[p], k)
    /\ ValueOf(disk[p], k) # v
    /\ disk' = [disk EXCEPT ![p] = SetValue(disk[p], k, v).file]
    /\ pre' = Spoil(pre)
    /\ watch' = [watch EXCEPT !.emitted = @ + 1]
    /\ UNCHANGED <<rows, history, filterText, showEmptyOnly, selectionAnchor,
                   selectionCurrent, isMouseDown, keyToDelete, ops, rejects,
                   drags, last, now, timers, debounceTimer, undoing, asyncVars, appVars>>

\* The listener of 'resx-changed' runs: the pending timer is cancelled and a
\* new one is started.  A timer that is due runs before a later event is
\* delivered.
ChangeEvent ==
    /\ watch.emitted > 0
    /\ \A t \in timers : now < t
    /\ TimerDeadline(now) <= MaxTime
    /\ timers' = ClearTimeout(timers, debounceTimer) \cup {TimerDeadline(now)}
    /\ debounceTimer' = TimerDeadline(now)
    /\ watch' = [watch EXCEPT
                   !.emitted = @ - 1,
                   !.delivered = @ + 1,
                   !.lastEvent = now,
                   !.bursts = IF watch.lastEvent # Never
                                 /\ now - watch.lastEvent < DebounceMs
                              THEN @ ELSE @ + 1]
    /\ UNCHANGED <<disk, rows, history, filterText, showEmptyOnly,
                   selectionAnchor, selectionCurrent, isMouseDown, keyToDelete,
                   ops, rejects, drags, last, pre, now, undoing, asyncVars, appVars>>

\* The timer's callback: loadData(); debounceTimer = undefined
TimerFired(t) ==
    /\ t \in timers
    /\ now >= t
    /\ timers' = timers \ {t}
    /\ debounceTimer' = NoTimer
    /\ rows' = Loaded(disk)
    /\ last' = Observed("load", {}, FALSE, TRUE, NoAction, NoSnap, <<>>)
    /\ watch' = [watch EXCEPT !.reloads = @ + 1, !.reloadAt = now,
                              !.eventBefore = watch.lastEvent]
    /\ UNCHANGED <<disk, history, filterText, showEmptyOnly, selectionAnchor,
                   selectionCurrent, isMouseDown, keyToDelete, ops, rejects,
                   drags, pre, now, undoing, asyncVars, appVars>>

\* The watcher of the group's directory notices the files that the last
\* handler wrote and emits a change event
WriteNoticed ==
    /\ last.calls # {}
    /\ last.before.disk # disk
    /\ watch.emitted + watch.delivered < MaxEvents
    /\ watch' = [watch EXCEPT !.emitted = @ + 1]
    /\ UNCHANGED <<disk, rows, history, filterText, showEmptyOnly,
                   selectionAnchor, selectionCurrent, isMouseDown, keyToDelete,
                   ops, rejects, drags, last, pre, now, timers, debounceTimer,
                   undoing, asyncVars, appVars>>

\* Time passes, not beyond the moment at which a pending timer is due
Advance(d) ==
    /\ now + d <= MaxTime
    /\ \A t \in timers : now + d <= t
    /\ now' = now + d
    /\ UNCHANGED <<disk, rows, history, filterText, showEmptyOnly,
                   selectionAnchor, selectionCurrent, isMouseDown, keyToDelete,
                   ops, rejects, drags, last, pre, timers, debounceTimer, watch,
                   undoing, asyncVars, appVars>>

\* ---------------------------------------------------------------- group switch
\* A click on another group of the sidebar: onSelectGroup(group), that is
\* setSelectedGroup(group).  App renders <ResourceGrid group={selectedGroup}>
\* without a key, so the same grid instance is rendered with the new prop and
\* keeps its state; the effect on [group] cleans the subscription up, loads
\* the rows of the new group and subscribes again.
SwitchGroup(g) ==
    /\ g \in Range(groups)
    /\ g.name # group
    /\ selectedGroup' = g
    /\ group' = g.name
    /\ disk' = shelf
    /\ shelf' = disk
    /\ rows' = Loaded(shelf)
    /\ timers' = ClearTimeout(timers, debounceTimer)
    /\ debounceTimer' = NoTimer
    /\ last' = Observed("switch", {}, FALSE, TRUE, NoAction, NoSnap, <<>>)
    /\ UNCHANGED <<history, filterText, showEmptyOnly, selectionAnchor,
                   selectionCurrent, isMouseDown, keyToDelete, ops, rejects,
                   drags, pre, now, watch, undoing, asyncVars, groups,
                   settings, scans>>

\* --------------------------------------------------- loadData with its await
\* The files of a group
FilesOf(g) == IF g = group THEN disk ELSE shelf

\* loadData() up to its await: invoke('load_group', { files: group.files }) is
\* sent for the group of the closure.  `loads` keeps every invocation, in
\* the order of the calls; `data` is what the store answers.
IssueLoad(ls, g) == Append(ls, [group |-> g, stage |-> "issued", data |-> <<>>])

\* The effect on mount calls loadData()
MountLoad ==
    /\ loads = <<>>
    /\ loads' = IssueLoad(loads, group)
    /\ UNCHANGED <<disk, rows, history, filterText, showEmptyOnly,
                   selectionAnchor, selectionCurrent, isMouseDown, keyToDelete,
                   ops, rejects, drags, last, pre, watchVars, undoing,
                   undoingAgain, edits, stale, appVars>>

\* handleRowsChange on a language column whose update_resource call is
\* rejected: setRows(newRows), then the catch block calls loadData()
RejectedUpdate(idx, lang, typed) ==
    /\ idx \in 1..Len(filteredRows)
    /\ LET shown == filteredRows[idx]
           updatedRow == UpdatedRow(shown, lang, typed)
           newRows == [filteredRows EXCEPT ![idx] = updatedRow]
           oldRow == OldRow(idx)
           newValue == Val(updatedRow, lang)
           oldValue == Val(oldRow, lang)
           file == FindFile(lang)
           action == [type |-> "update", key |-> updatedRow.key,
                      lang |-> lang, oldValue |-> oldValue,
                      newValue |-> newValue]
       IN /\ newValue # oldValue
          /\ file.path \in Paths
          /\ rows' = newRows
          /\ last' = Observed("update",
                {[cmd |-> "update_resource", path |-> file.path,
                  key |-> updatedRow.key, arg |-> newValue]},
                TRUE, TRUE, action, NoSnap,
                [shown |-> shown, oldRow |-> oldRow, column |-> lang,
                 typed |-> typed])
    /\ loads' = IssueLoad(loads, group)
    /\ ops' = ops + 1
    /\ rejects' = rejects + 1
    /\ UNCHANGED <<disk, history, filterText, showEmptyOnly, selectionAnchor,
                   selectionCurrent, isMouseDown, keyToDelete, drags, pre,
                   watchVars, undoing, undoingAgain, edits, stale, appVars>>

\* The timer's callback: loadData() is called; debounceTimer = undefined
TimerFiredLoad(t) ==
    /\ t \in timers
    /\ now >= t
    /\ timers' = timers \ {t}
    /\ debounceTimer' = NoTimer
    /\ loads' = IssueLoad(loads, group)
    /\ watch' = [watch EXCEPT !.reloads = @ + 1, !.reloadAt = now,
                              !.eventBefore = watch.lastEvent]
    /\ UNCHANGED <<disk, rows, history, filterText, showEmptyOnly,
                   selectionAnchor, selectionCurrent, isMouseDown, keyToDelete,
                   ops, rejects, drags, last, pre, now, undoing, undoingAgain,
                   edits, stale, appVars>>

\* A click on another group: the effect on [group] calls loadData() for it
SwitchGroupLoad(g) ==
    /\ g \in Range(groups)
    /\ g.name # group
    /\ selectedGroup' = g
    /\ group' = g.name
    /\ disk' = shelf
    /\ shelf' = disk
    /\ timers' = ClearTimeout(timers, debounceTimer)
    /\ debounceTimer' = NoTimer
    /\ loads' = IssueLoad(loads, g.name)
    /\ UNCHANGED <<rows, history, filterText, showEmptyOnly, selectionAnchor,
                   selectionCurrent, isMouseDown, keyToDelete, ops, rejects,
                   drags, last, pre, now, watch, undoing, undoingAgain, edits,
                   stale, groups, settings, scans>>

\* The store handles a load_group request: it reads the files of the group
\* the request names
LoadServed(i) ==
    /\ i \in 1..Len(loads)
    /\ loads[i].stage = "issued"
    /\ loads' = [loads EXCEPT ![i].stage = "served",
                              ![i].data = Loaded(FilesOf(loads[i].group))]
    /\ UNCHANGED <<disk, rows, history, filterText, showEmptyOnly,
                   selectionAnchor, selectionCurrent, isMouseDown, keyToDelete,
                   ops, rejects, drags, last, pre, watchVars, undoing,
                   undoingAgain, edits, stale, appVars>>

\* loadData() after its await: data.sort(...); setRows(data)
LoadDelivered(i) ==
    /\ i \in 1..Len(loads)
    /\ loads[i].stage = "served"
    /\ loads' = [loads EXCEPT ![i].stage = "delivered"]
    /\ rows' = loads[i].data
    /\ last' = Observed("loaded", {}, FALSE, TRUE, NoAction, NoSnap, <<i>>)
    /\ UNCHANGED <<disk, history, filterText, showEmptyOnly, selectionAnchor,
                   selectionCurrent, isMouseDown, keyToDelete, ops, rejects,
                   drags, pre, watchVars, undoing, undoingAgain, edits, stale,
                   appVars>>

\* ------------------------------------------- the subscription after a switch
\* A click on another group, with the cleanup of the effect on [group]:
\* clearTimeout(debounceTimer) and unlistenPromise.then(unlisten => unlisten()).
\* The listener of the previous group stays registered until the unlisten
\* has completed.  The new effect loads the rows and subscribes again.
SwitchGroupCleanup(g) ==
    /\ g \in Range(groups)
    /\ g.name # group
    /\ stale = NoStale
    /\ selectedGroup' = g
    /\ group' = g.name
    /\ disk' = shelf
    /\ shelf' = disk
    /\ rows' = Loaded(shelf)
    /\ timers' = ClearTimeout(timers, debounceTimer)
    /\ debounceTimer' = NoTimer
    /\ stale' = [listening |-> TRUE, timer |-> NoTimer, group |-> group]
    /\ last' = Observed("switch", {}, FALSE, TRUE, NoAction, NoSnap, <<>>)
    /\ UNCHANGED <<history, filterText, showEmptyOnly, selectionAnchor,
                   selectionCurrent, isMouseDown, keyToDelete, ops, rejects,
                   drags, pre, now, watch, undoing, undoingAgain, loads, edits,
                   groups, settings, scans>>

\* unlisten() has completed: the listener of the previous group is removed.
\* A timer that it started is not cancelled, the cleanup has run already.
Unlistened ==
    /\ stale.listening
    /\ stale' = [stale EXCEPT !.listening = FALSE]
    /\ UNCHANGED <<disk, rows, history, filterText, showEmptyOnly,
                   selectionAnchor, selectionCurrent, isMouseDown, keyToDelete,
                   ops, rejects, drags, last, pre, watchVars, undoing,
                   undoingAgain, loads, edits, appVars>>

\* 'resx-changed' is delivered to every registered listener: the one of the
\* current subscription and, until its unlisten has completed, the one of the
\* previous group, which starts the timer of its own closure
ChangeEventAll ==
    /\ watch.emitted > 0
    /\ \A t \in timers : now < t
    /\ TimerDeadline(now) <= MaxTime
    /\ timers' = ClearTimeout(timers, debounceTimer) \cup {TimerDeadline(now)}
    /\ debounceTimer' = TimerDeadline(now)
    /\ stale' = IF stale.listening
                THEN [stale EXCEPT !.timer = TimerDeadline(now)]
                ELSE stale
    /\ watch' = [watch EXCEPT
                   !.emitted = @ - 1,
                   !.delivered = @ + 1,
                   !.lastEvent = now,
                   !.bursts = IF watch.lastEvent # Never
                                 /\ now - watch.lastEvent < DebounceMs
                              THEN @ ELSE @ + 1]
    /\ UNCHANGED <<disk, rows, history, filterText, showEmptyOnly,
                   selectionAnchor, selectionCurrent, isMouseDown, keyToDelete,
                   ops, rejects, drags, last, pre, now, undoing, undoingAgain,
                   loads, edits, appVars>>

\* The timer of the previous group's listener runs: loadData() of its
\* closure loads the files of the previous group and calls setRows
StaleTimerFired ==
    /\ stale.timer # NoTimer
    /\ now >= stale.timer
    /\ stale' = [stale EXCEPT !.timer = NoTimer]
    /\ rows' = Loaded(FilesOf(stale.group))
    /\ last' = Observed("staleLoad", {}, FALSE, TRUE, NoAction, NoSnap, <<>>)
    /\ UNCHANGED <<disk, history, filterText, showEmptyOnly, selectionAnchor,
                   selectionCurrent, isMouseDown, keyToDelete, ops, rejects,
                   drags, pre, watchVars, undoing, undoingAgain, loads, edits,
                   appVars>>

\* ------------------------------------------- handleRowsChange with its await
\* handleRowsChange on a language column up to its await: setRows(newRows)
\* and the update_resource request is sent.  `edits` keeps every invocation
\* in the order of the calls; `was` is the value on disk at that moment and
\* `overlaps` tells that an earlier edit was still awaiting its answer.
EditIssued(idx, lang, typed) ==
    /\ idx \in 1..Len(filteredRows)
    /\ LET shown == filteredRows[idx]
           updatedRow == UpdatedRow(shown, lang, typed)
           newRows == [filteredRows EXCEPT ![idx] = updatedRow]
           oldRow == OldRow(idx)
           newValue == Val(updatedRow, lang)
           oldValue == Val(oldRow, lang)
           file == FindFile(lang)
       IN /\ newValue # oldValue
          /\ file.path \in Paths
          /\ HasKey(disk[file.path], updatedRow.key)
          /\ rows' = newRows
          /\ edits' = Append(edits,
                [key |-> updatedRow.key, lang |-> lang, path |-> file.path,
                 oldValue |-> oldValue, newValue |-> newValue,
                 stage |-> "issued",
                 was |-> ValueOf(disk[file.path], updatedRow.key),
                 overlaps |-> \E i \in 1..Len(edits) :
                                 edits[i].stage # "answered"])
          /\ last' = Observed("updateIssued",
                {[cmd |-> "update_resource", path |-> file.path,
                  key |-> updatedRow.key, arg |-> newValue]},
                FALSE, FALSE, NoAction, NoSnap,
                [shown |-> shown, oldRow |-> oldRow, column |-> lang,
                 typed |-> typed])
    /\ ops' = ops + 1
    /\ UNCHANGED <<disk, history, filterText, showEmptyOnly, selectionAnchor,
                   selectionCurrent, isMouseDown, keyToDelete, rejects, drags,
                   pre, watchVars, undoing, undoingAgain, loads, stale, appVars>>

\* The store handles an update_resource request: setValue on the file
EditServed(i) ==
    /\ i \in 1..Len(edits)
    /\ edits[i].stage = "issued"
    /\ HasKey(disk[edits[i].path], edits[i].key)
    /\ disk' = [disk EXCEPT ![edits[i].path] =
                   SetValue(disk[edits[i].path], edits[i].key,
                            edits[i].newValue).file]
    /\ edits' = [edits EXCEPT ![i].stage = "served"]
    /\ pre' = Spoil(pre)
    /\ UNCHANGED <<rows, history, filterText, showEmptyOnly, selectionAnchor,
                   selectionCurrent, isMouseDown, keyToDelete, ops, rejects,
                   drags, last, watchVars, undoing, undoingAgain, loads, stale,
                   appVars>>

\* handleRowsChange after its await: pushHistory({ type: 'update', ... })
EditAnswered(i) ==
    /\ i \in 1..Len(edits)
    /\ edits[i].stage = "served"
    /\ LET action == [type |-> "update", key |-> edits[i].key,
                      lang |-> edits[i].lang, oldValue |-> edits[i].oldValue,
                      newValue |-> edits[i].newValue]
       IN /\ history' = Append(history, action)
          /\ pre' = Append(pre, [clean |-> FALSE, disk |-> disk,
                                 group |-> group])
          /\ last' = Observed("updateAnswered", {}, FALSE, FALSE, action,
                              NoSnap, <<i>>)
    /\ edits' = [edits EXCEPT ![i].stage = "answered"]
    /\ UNCHANGED <<disk, rows, filterText, showEmptyOnly, selectionAnchor,
                   selectionCurrent, isMouseDown, keyToDelete, ops, rejects,
                   drags, watchVars, undoing, undoingAgain, loads, stale,
                   appVars>>

\* ----------------------------------------------------------------------- App
\* scan_directory(path): the groups of a directory, as new objects
ScanDirectory(dir, scan) == <<ResxGroup(dir, scan)>>

\* App as constructed: no group, nothing selected, loadSettings() awaiting
\* get_app_settings, which holds some saved groups.  No grid is rendered.
InitApp ==
    /\ disk \in InitialDisks
    /\ rows = <<>>
    /\ history = <<>>
    /\ filterText = ""
    /\ showEmptyOnly = FALSE
    /\ selectionAnchor = NoPoint
    /\ selectionCurrent = NoPoint
    /\ isMouseDown = FALSE
    /\ keyToDelete = ""
    /\ ops = 0
    /\ rejects = 0
    /\ drags = 0
    /\ last = Observed("init", {}, FALSE, FALSE, NoAction, NoSnap, <<>>)
    /\ pre = <<>>
    /\ now = 0
    /\ timers = {}
    /\ debounceTimer = NoTimer
    /\ watch = NoWatch
    /\ undoing = NotUndoing
    /\ undoingAgain = NotUndoing
    /\ loads = <<>>
    /\ edits = <<>>
    /\ stale = NoStale
    /\ groups = <<>>
    /\ selectedGroup = NoGroup
    /\ settings \in {[stage |-> "loading", saved |-> sv] :
                        sv \in SUBSET {"A", "B"}}
    /\ scans = 0
    /\ group = "A"
    /\ shelf = ShelfDisk

\* handleOpenFolder: the folder picker returns dir, scan_directory answers and
\* setGroups appends the groups whose directory is not in the list yet
HandleOpenFolder(dir) ==
    /\ LET result == ScanDirectory(dir, scans + 1)
           newGroups == SelectSeq(result, LAMBDA g :
                            \A i \in 1..Len(groups) : groups[i].name # g.name)
       IN groups' = groups \o newGroups
    /\ scans' = scans + 1
    /\ UNCHANGED <<disk, rows, history, filterText, showEmptyOnly,
                   selectionAnchor, selectionCurrent, isMouseDown, keyToDelete,
                   ops, rejects, drags, last, pre, watchVars, undoing,
                   asyncVars, selectedGroup, settings, group, shelf>>

\* loadSettings() completes: when saved_groups is not empty, every saved
\* directory is scanned and setGroups(allGroups) replaces the list
LoadSettings ==
    /\ settings.stage = "loading"
    /\ settings' = [settings EXCEPT !.stage = "done"]
    /\ IF settings.saved # {}
       THEN /\ LET savedDirs == SelectSeq(<<"A", "B">>,
                                             LAMBDA n : n \in settings.saved)
                  IN groups' = [i \in 1..Len(savedDirs) |->
                                   ResxGroup(savedDirs[i], scans + 1)]
            /\ scans' = scans + 1
       ELSE UNCHANGED <<groups, scans>>
    /\ UNCHANGED <<disk, rows, history, filterText, showEmptyOnly,
                   selectionAnchor, selectionCurrent, isMouseDown, keyToDelete,
                   ops, rejects, drags, last, pre, watchVars, undoing,
                   asyncVars, selectedGroup, group, shelf>>

\* handleRemoveGroup(groupToRemove), from the X button of a sidebar item
HandleRemoveGroup(groupToRemove) ==
    /\ groupToRemove \in Range(groups)
    /\ groups' = SelectSeq(groups, LAMBDA g : g # groupToRemove)
    /\ selectedGroup' = IF selectedGroup = groupToRemove
                        THEN NoGroup ELSE selectedGroup
    /\ UNCHANGED <<disk, rows, history, filterText, showEmptyOnly,
                   selectionAnchor, selectionCurrent, isMouseDown, keyToDelete,
                   ops, rejects, drags, last, pre, watchVars, undoing,
                   asyncVars, settings, scans, group, shelf>>

\* onSelectGroup(g), from a click on a sidebar item: setSelectedGroup(g).
\* The grid is rendered with the group: it loads the rows of its files.
SelectGroup(g) ==
    /\ g \in Range(groups)
    /\ g # selectedGroup
    /\ selectedGroup' = g
    /\ group' = g.name
    /\ disk' = FilesOf(g.name)
    /\ shelf' = IF g.name = group THEN shelf ELSE disk
    /\ rows' = Loaded(FilesOf(g.name))
    /\ last' = Observed("select", {}, FALSE, TRUE, NoAction, NoSnap, <<>>)
    /\ UNCHANGED <<history, filterText, showEmptyOnly, selectionAnchor,
                   selectionCurrent, isMouseDown, keyToDelete, ops, rejects,
                   drags, pre, watchVars, undoing, asyncVars, groups, settings,
                   scans>>

\* -------------------------------------------------------------- specification
\* The store calls that fail on I/O in one handler invocation
Rejections == {rej \in SUBSET Paths : rej = {} \/ rejects < MaxRejects}

\* The texts typed into the search box
FilterTexts == {"", "X", "a"}

\* The handlers that edit one cell or one key; n bounds the invocations
Edit(n) ==
    /\ ops < n
    /\ Len(history) < MaxHistory
    /\ \/ \E idx \in 1..Len(KeyOrder), k \in Keys, rej \in Rejections :
             HandleRowsChange(idx, "key", k, rej)
       \/ \E idx \in 1..Len(KeyOrder), l \in Langs, v \in Values,
             rej \in Rejections :
             HandleRowsChange(idx, l, v, rej)
       \/ \E k \in Keys, rej \in Rejections : HandleAddKey(k, rej)
       \/ \E idx \in 1..Len(KeyOrder), l \in Langs, rej \in Rejections :
             HandleClearCell(idx, l, rej)
       \/ \E idx \in 1..Len(KeyOrder), rej \in Rejections :
             HandleDeleteKey(idx, rej)
       \/ \E rej \in Rejections : RetryDeleteKey(rej)

Undo(n) ==
    /\ ops < n
    /\ \E rej \in Rejections : HandleUndo(rej)

View ==
    \/ LoadData
    \/ CancelDeleteKey
    \/ ToggleShowEmptyOnly

Next == Edit(MaxOps) \/ Undo(MaxOps) \/ View

\* The edits of single cells and keys, undo, reload and the show-empty filter
Spec == Init /\ [][Next]_vars

\* The drag selection and the batch delete / clear of the selected cells
Select ==
    \/ drags < MaxDrags /\ \E pt \in ShownCells : MouseDown(pt)
    \/ \E pt \in ShownCells : MouseEnter(pt)
    \/ MouseUp

\* Keys are pressed while no mouse button is held
Batch(n) ==
    /\ ops < n
    /\ Len(history) < MaxHistory
    /\ ~isMouseDown
    /\ \E confirmed \in BOOLEAN, rej \in Rejections :
          HandleGridKeyDown(confirmed, rej)

BatchUndo(n) == ~isMouseDown /\ Undo(n)

NextBatch ==
    Batch(MaxOps) \/ BatchUndo(MaxOps) \/ Select \/ LoadData
        \/ ToggleShowEmptyOnly

SpecBatch == Init /\ [][NextBatch]_vars

\* Both together: a session edits single cells and keys, or it starts with
\* a drag selection and goes on with the batch delete / clear
FirstDrag == ops = 0 /\ drags = 0 /\ \E pt \in ShownCells : MouseDown(pt)

NextAll ==
    \/ drags = 0 /\ Next
    \/ FirstDrag
    \/ drags > 0 /\ NextBatch

SpecAll == Init /\ [][NextAll]_vars

\* The search box
NextSearch == \E t \in FilterTexts : SetFilterText(t)


\* The two ways to delete rows while a selection is shown: the context
\* menu's "Delete Key" with its dialog, and the Delete key over the selection
DeleteByMenu(n) ==
    /\ ops < n
    /\ Len(history) < MaxHistory
    /\ ~isMouseDown
    /\ \/ \E idx \in 1..Len(KeyOrder), rej \in Rejections :
             HandleDeleteKey(idx, rej)
       \/ \E rej \in Rejections : RetryDeleteKey(rej)

NextDelete ==
    \/ Select
    \/ DeleteByMenu(MaxOps)
    \/ keyToDelete = "" /\ Batch(MaxOps)
    \/ CancelDeleteKey
    \/ LoadData

SpecDelete == Init /\ [][NextDelete]_vars

\* Undo with its await: the handlers of the single edits stay enabled while
\* the store calls of an undo are in flight
NextRace ==
    \/ Edit(MaxOps)
    \/ ops < MaxOps /\ \E rej \in Rejections : UndoBegin(rej)
    \/ UndoFinish
    \/ View

SpecRace == Init /\ [][NextRace]_vars

\* The search box and the filter button over a snapshot that single edits
\* and reloads change
NextFilter ==
    \/ NextSearch
    \/ Edit(MaxOps - 1)
    \/ Undo(MaxOps - 1)
    \/ View

SpecFilter == Init /\ [][NextFilter]_vars

\* A group whose default file holds two different non-empty values
TwoValueDisk ==
    [p \in Paths |->
        IF p = "en.resx"
        THEN << [key |-> "a", value |-> "x"], [key |-> "b", value |-> "y"] >>
        ELSE << [key |-> "a", value |-> ""], [key |-> "b", value |-> ""] >>]

InitTwoValues ==
    /\ disk = TwoValueDisk
    /\ rows = <<>>
    /\ history = <<>>
    /\ filterText = ""
    /\ showEmptyOnly = FALSE
    /\ selectionAnchor = NoPoint
    /\ selectionCurrent = NoPoint
    /\ isMouseDown = FALSE
    /\ keyToDelete = ""
    /\ ops = 0
    /\ rejects = 0
    /\ drags = 0
    /\ last = Observed("init", {}, FALSE, FALSE, NoAction, NoSnap, <<>>)
    /\ pre = <<>>
    /\ now = 0
    /\ timers = {}
    /\ debounceTimer = NoTimer
    /\ watch = NoWatch
    /\ undoing = NotUndoing
    /\ AppInit

\* A session of one more handler invocation than the other specifications
\* follow, whose store calls all succeed: deletions by the context menu,
\* renames, a drag selection, the Delete key and undo
LongStep == ops < MaxOps + 1 /\ ~isMouseDown
LongDelete == LongStep /\ \E idx \in 1..Len(KeyOrder) : HandleDeleteKey(idx, {})
LongRename ==
    LongStep /\ \E idx \in 1..Len(KeyOrder), k \in Keys :
                   HandleRowsChange(idx, "key", k, {})
LongBatch == LongStep /\ \E confirmed \in BOOLEAN : HandleGridKeyDown(confirmed, {})
LongUndo == LongStep /\ HandleUndo({})

NextLong ==
    \/ LoadData
    \/ Select
    \/ LongDelete
    \/ LongRename
    \/ LongBatch
    \/ LongUndo

SpecLong == InitTwoValues /\ [][NextLong]_vars

\* HistoryAction values of the four single types, as children of a Batch
SingleActions ==
    {[type |-> "update", key |-> k, lang |-> l, oldValue |-> v,
      newValue |-> IF v = "" THEN "x" ELSE ""] :
        k \in {"a", "b"}, l \in Langs, v \in Values}
    \cup {[type |-> "rename", oldKey |-> kn[1], newKey |-> kn[2]] :
            kn \in {<<"a", "b">>, <<"a", "c">>, <<"b", "c">>}}
    \cup {[type |-> "add", key |-> k] : k \in {"b", "c"}}
    \cup {[type |-> "delete", key |-> k,
           row |-> [key |-> k, values |-> [l \in Langs |-> "x"]],
           indices |-> [p \in Paths |-> 0]] : k \in {"a", "c"}}

\* { type: 'batch', actions } whose children are neither all 'delete' nor
\* all 'update'
IsMixed(actions) ==
    /\ \E i \in 1..Len(actions) : actions[i].type # "delete"
    /\ \E i \in 1..Len(actions) : actions[i].type # "update"
MixedBatches ==
    {[type |-> "batch", actions |-> acts] :
        acts \in {s \in [1..MaxChildren -> SingleActions] : IsMixed(s)}}

\* The grid with a mixed Batch on top of the log.  handleGridKeyDown builds
\* only Batches of one type, so the log is set by hand.
InitMixed ==
    /\ disk \in InitialDisks
    /\ rows = Loaded(disk)
    /\ history \in {<<b>> : b \in MixedBatches}
    /\ filterText = ""
    /\ showEmptyOnly = FALSE
    /\ selectionAnchor = NoPoint
    /\ selectionCurrent = NoPoint
    /\ isMouseDown = FALSE
    /\ keyToDelete = ""
    /\ ops = 0
    /\ rejects = 0
    /\ drags = 0
    /\ last = Observed("init", {}, FALSE, FALSE, NoAction, NoSnap, <<>>)
    /\ pre = <<[clean |-> FALSE, disk |-> disk, group |-> "A"]>>
    /\ now = 0
    /\ timers = {}
    /\ debounceTimer = NoTimer
    /\ watch = NoWatch
    /\ undoing = NotUndoing
    /\ AppInit

\* Ctrl+Z, with store calls that fail only where the store reports an error
MixedUndo == ops < MaxOps /\ HandleUndo({})

NextMixed == MixedUndo \/ LoadData

SpecMixed == InitMixed /\ [][NextMixed]_vars

\* The change watcher: external writes, the debounced listener, the clock
TimerFires == \E t \in timers : TimerFired(t)
TimePasses == \E d \in Delays : Advance(d)

NextWatch ==
    \/ \E p \in Paths, k \in Keys, v \in Values : ExternalWrite(p, k, v)
    \/ ChangeEvent
    \/ TimerFires
    \/ TimePasses

\* Ctrl+Z pressed twice in a row: edits are made while no undo is in flight,
\* and a second handleUndo may start while the first awaits its store calls
NextTwice ==
    \/ undoing = NotUndoing /\ undoingAgain = NotUndoing /\ Edit(MaxOps)
    \/ ops < MaxOps + 1 /\ \E rej \in Rejections : UndoBegin(rej)
    \/ ops < MaxOps + 1 /\ \E rej \in Rejections : UndoAgain(rej)
    \/ UndoFinish
    \/ UndoAgainFinish
    \/ LoadData

SpecTwice == Init /\ [][NextTwice]_vars

\* The single edits and undo in a working set of two groups, between which
\* the user switches
NextGroups ==
    \/ Edit(MaxOps - 1)
    \/ Undo(MaxOps - 1)
    \/ \E g \in Range(groups) : SwitchGroup(g)
    \/ LoadData

SpecGroups == Init /\ [][NextGroups]_vars

\* The operations that do not reload by themselves, with the change events
\* that the store's writes lead to; time goes on in steps of the debounce
\* delay
NextSync ==
    \/ ops = 0 /\ drags = 0 /\ LoadData
    \/ /\ ops < MaxOps - 1
       /\ ~isMouseDown
       /\ \/ \E idx \in 1..Len(KeyOrder) : HandleDeleteKey(idx, {})
          \/ \E idx \in 1..Len(KeyOrder), l \in Langs :
                HandleClearCell(idx, l, {})
          \/ HandleGridKeyDown(TRUE, {})
          \/ HandleUndo({})
    \/ /\ ops = 0
       /\ \/ drags < MaxDrags /\ \E pt \in ShownCells : MouseDown(pt)
          \/ MouseUp
    \/ WriteNoticed
    \/ ChangeEvent
    \/ TimerFires
    \/ Advance(DebounceMs)

\* A due timer callback is run by the event loop, and time does not stop
SpecSync ==
    /\ InitTwoValues
    /\ [][NextSync]_vars
    /\ WF_vars(TimerFires) /\ WF_vars(Advance(DebounceMs))

\* Loads that overlap: the load on mount, the reload after a rejected edit,
\* the debounced reload after an external write and the load after a switch
\* of the group, each answered by the store after a time of its own
NextLoads ==
    \/ MountLoad
    \/ /\ ops < MaxOps - 2
       /\ Len(loads) < MaxLoads
       /\ \E idx \in 1..Len(KeyOrder), l \in Langs, v \in Values :
             RejectedUpdate(idx, l, v)
    \/ \E v \in Values : ExternalWrite("en.resx", "a", v)
    \/ ChangeEvent
    \/ Len(loads) < MaxLoads /\ \E t \in timers : TimerFiredLoad(t)
    \/ Advance(DebounceMs)
    \/ Len(loads) < MaxLoads /\ \E g \in Range(groups) : SwitchGroupLoad(g)
    \/ \E i \in 1..Len(loads) : LoadServed(i)
    \/ \E i \in 1..Len(loads) : LoadDelivered(i)

SpecLoads == InitTwoValues /\ [][NextLoads]_vars

\* The change watcher across a switch of the group
NextStale ==
    \/ LoadData
    \/ \E p \in Paths, k \in Keys, v \in Values : ExternalWrite(p, k, v)
    \/ ChangeEventAll
    \/ TimerFires
    \/ StaleTimerFired
    \/ Advance(DebounceMs)
    \/ \E g \in Range(groups) : SwitchGroupCleanup(g)
    \/ Unlistened

SpecStale == Init /\ [][NextStale]_vars

\* Cell edits committed without waiting for the store, then Ctrl+Z once
\* every edit is answered
NextEdits ==
    \/ ops = 0 /\ rows = <<>> /\ LoadData
    \/ /\ Len(edits) < MaxEdits
       /\ \E idx \in 1..Len(KeyOrder), l \in Langs, v \in Values :
             EditIssued(idx, l, v)
    \/ \E i \in 1..Len(edits) : EditServed(i)
    \/ \E i \in 1..Len(edits) : EditAnswered(i)
    \/ /\ \A i \in 1..Len(edits) : edits[i].stage = "answered"
       /\ HandleUndo({})

SpecEdits == InitTwoValues /\ [][NextEdits]_vars

\* App: the sidebar's buttons and the settings load of the startup
NextApp ==
    \/ scans < MaxScans /\ \E dir \in {"A", "B"} : HandleOpenFolder(dir)
    \/ LoadSettings
    \/ \E g \in Range(groups) : HandleRemoveGroup(g)
    \/ \E g \in Range(groups) : SelectGroup(g)

SpecApp == InitApp /\ [][NextApp]_vars

\* A due timer callback is run by the event loop, and time goes on
SpecWatch ==
    Init /\ [][NextWatch]_vars /\ WF_vars(TimerFires) /\ WF_vars(TimePasses)


\* ======================================================================= claims
\* The last handler issued store calls
Acted == last.calls # {}
\* The last handler was an undo whose reversal succeeded, of an action since
\* whose recording every edit was recorded and undone again
CleanUndo == last.op = "undo" /\ ~last.failed /\ last.snap.clean
\* The keys of the displayed rows a..b of the batch delete just run
BatchKeys ==
    {last.info.shown[i + 1].key :
        i \in last.info.range.startRow..last.info.range.endRow}
\* The (key, language) cells the batch clear just run was aimed at
BatchCells ==
    {<<last.info.shown[r + 1].key, GroupFiles[c].lang>> :
        r \in {q \in last.info.range.startRow..last.info.range.endRow :
                 q + 1 \in 1..Len(last.info.shown)},
        c \in Max2(last.info.range.startCol, 1)..last.info.range.endCol}
C2_DeleteUndoKeepsIndex ==
    (CleanUndo /\ last.act.type = "delete") =>
        \A p \in Paths : KeySeq(disk[p]) = KeySeq(last.snap.disk[p])

\* C2 witness: the middle key of a three-key file was deleted and restored
C2_Witness ==
    /\ CleanUndo
    /\ last.act.type = "delete"
    /\ \E p \in Paths : Len(disk[p]) = 3 /\ last.act.indices[p] = 1

\* C3: a confirmed batchDelete over the key column and rows [a,b] removes
\* exactly the keys of the displayed rows a..b from every file and no other
\* key and pushes a single history entry; one undo() restores all of them at
\* their original per-file positions.
C3_BatchDeleteAndUndo ==
    /\ (last.op = "batchDelete" /\ Acted /\ ~last.failed) =>
          /\ \A p \in Paths :
                disk[p] = SelectSeq(last.before.disk[p],
                                    LAMBDA e : e.key \notin BatchKeys)
          /\ history = Append(last.before.history, last.act)
          /\ last.act.type = "batch"
    /\ (CleanUndo /\ last.act.type = "batch"
          /\ \A i \in 1..Len(last.act.actions) :
                last.act.actions[i].type = "delete") =>
          /\ \A p \in Paths : KeySeq(disk[p]) = KeySeq(last.snap.disk[p])
          /\ history = SubSeq(last.before.history, 1,
                              Len(last.before.history) - 1)
          /\ Cardinality(last.calls) = Cardinality(Paths)

\* C3 witness: two keys that are not neighbours in display order in some
\* file were deleted together and restored by one undo
C3_Witness ==
    /\ CleanUndo
    /\ last.act.type = "batch"
    /\ Len(last.act.actions) = 2
    /\ last.act.actions[1].type = "delete"
    /\ \E p \in Paths :
          /\ Len(disk[p]) = 3
          /\ last.act.actions[1].indices[p] > last.act.actions[2].indices[p]

\* C4: a confirmed batchDelete over language columns only sets
\* exactly the targeted (row, language) values to the empty string and
\* changes nothing else; a following undo() restores the prior values.
C4_BatchClearAsStated ==
    /\ (last.op = "batchClear" /\ Acted /\ ~last.failed) =>
          \A p \in Paths :
             /\ KeySeq(disk[p]) = KeySeq(last.before.disk[p])
             /\ \A i \in 1..Len(disk[p]) :
                   disk[p][i].value =
                      IF \E l \in Langs :
                            /\ FindFile(l).path = p
                            /\ <<disk[p][i].key, l>> \in BatchCells
                      THEN ""
                      ELSE last.before.disk[p][i].value
    /\ (CleanUndo /\ last.act.type = "batch"
          /\ \A i \in 1..Len(last.act.actions) :
                last.act.actions[i].type = "update") =>
          disk = last.snap.disk

\* C5: renameKey(row, newKey) with newKey the key of another row of the
\* current RowTable is rejected before any rename store call is issued: no
\* file is touched, the RowTable is unchanged, no Rename is recorded.
C5_RenameCollisionRejected ==
    (/\ last.op = "rename"
     /\ last.info.column = "key"
     /\ last.info.typed # last.info.shown.key
     /\ \E i \in 1..Len(last.before.rows) :
           last.before.rows[i].key = last.info.typed) =>
        /\ last.calls = {}
        /\ disk = last.before.disk
        /\ rows = last.before.rows
        /\ history = last.before.history

\* C6: when a store call of undo()'s reversal rejects, for every action
\* type including Batch, the history is left unchanged with the same action
\* still on top.
C6_FailedUndoKeepsAction ==
    (last.op = "undo" /\ last.failed) => history = last.before.history

\* The handlers of C7: renameKey, addKey, deleteKey, batch row-delete and
\* batch cell-clear
FanOutOps == {"rename", "add", "delete", "batchDelete", "batchClear"}

\* C7: for renameKey, addKey, deleteKey, batch row-delete and batch
\* cell-clear a history entry is pushed only after every per-file store call
\* of the edit has succeeded; if any call fails, the history is unchanged.
C7_HistoryAfterAllCalls ==
    last.op \in FanOutOps =>
        /\ last.failed => history = last.before.history
        /\ history # last.before.history =>
              /\ ~last.failed
              /\ Acted
              /\ history = Append(last.before.history, last.act)

\* C7 witness: one file of a fan-out took the edit, another rejected it,
\* and the log was left as it was
C7_Witness ==
    /\ last.op \in FanOutOps
    /\ Cardinality(last.calls) = Cardinality(Paths)
    /\ last.failed
    /\ disk # last.before.disk
    /\ history = last.before.history

\* C8: when some per-file call of renameKey, addKey, deleteKey or
\* batchDelete fails while others succeeded, a full reload() is triggered
\* and the visible rows equal the on-disk contents of the files.
C8_PartialFailureReloads ==
    (/\ last.op \in {"rename", "add", "delete", "batchDelete"}
     /\ last.failed
     /\ disk # last.before.disk) =>
        /\ last.reload
        /\ rows = Loaded(disk)

\* C9: when the setValue call of updateCell rejects, no history entry is
\* recorded and a reload() is triggered: the optimistic change is gone and
\* the RowTable matches the store.
C9_RejectedUpdateReloads ==
    (last.op = "update" /\ last.failed) =>
        /\ history = last.before.history
        /\ last.reload
        /\ rows = Loaded(disk)

\* C9 witness: the rejected edit had changed the displayed cell
C9_Witness ==
    /\ last.op = "update"
    /\ last.failed
    /\ last.info.typed # Val(last.info.shown, last.info.column)
    /\ UpdatedRow(last.info.shown, last.info.column, last.info.typed)
          \notin Range(rows)
    /\ rows = Loaded(disk)

\* C10: updateCell(row, lang, newValue) with newValue equal to the cell's
\* current value issues no store call and records no history entry; with a
\* different value it issues exactly one setValue call, to the file of lang
\* only, and on success records exactly one Update{key, lang, oldValue,
\* newValue}.
C10_UpdateCellAsStated ==
    last.op = "update" =>
        LET row == last.info.shown
            lang == last.info.column
            newValue == last.info.typed
            oldValue == Val(row, lang)
        IN IF newValue = oldValue
           THEN /\ last.calls = {}
                /\ history = last.before.history
           ELSE /\ last.calls = {[cmd |-> "update_resource",
                                  path |-> FindFile(lang).path,
                                  key |-> row.key, arg |-> newValue]}
                /\ ~last.failed =>
                      history = Append(last.before.history,
                                       [type |-> "update", key |-> row.key,
                                        lang |-> lang, oldValue |-> oldValue,
                                        newValue |-> newValue])

\* C11: for a burst of change events, each less than 500 ms after the one
\* before, exactly one reload() is performed: every new event cancels the
\* pending timer and restarts it.  At most one timer is pending, every burst
\* but the one still awaited has had its one reload, and in the end every
\* burst has.
C11_OneReloadPerBurst ==
    /\ [](/\ Cardinality(timers) <= 1
          /\ watch.reloads = (IF timers = {} THEN watch.bursts
                              ELSE watch.bursts - 1))
    /\ <>[](watch.reloads = watch.bursts)

\* C11 witness: two events of one burst were followed by one reload
C11_Witness ==
    /\ watch.delivered = 2
    /\ watch.bursts = 1
    /\ watch.reloads = 1

\* C12: a reload() triggered by change events never occurs less than 500 ms
\* after the most recent change event, and one does occur once 500 ms pass
\* without a further event.
C12_ReloadAfterQuietTime ==
    /\ [](watch.reloadAt # Never =>
             /\ watch.eventBefore # Never
             /\ watch.reloadAt - watch.eventBefore >= DebounceMs)
    /\ (watch.lastEvent # Never
          /\ watch.reloadAt < watch.lastEvent + DebounceMs)
          ~> (watch.reloadAt >= watch.lastEvent + DebounceMs)

\* C12 witness: the reload ran after an external write and shows it
C12_Witness ==
    /\ watch.reloadAt # Never
    /\ watch.reloadAt >= watch.lastEvent + DebounceMs
    /\ timers = {}
    /\ disk \notin InitialDisks
    /\ rows = Loaded(disk)

\* The two branches of batchDelete
BatchOps == {"batchDelete", "batchClear"}

\* C13: batchDelete (row deletion or cell clear) issues no store call and
\* records no history unless confirm(prompt) returned true; when it returns
\* false, files, RowTable, selection and history are all unchanged.
C13_NoBatchWithoutConfirm ==
    [][(/\ ops' # ops
        /\ last'.op \in BatchOps
        /\ ~last'.info.confirmed) =>
           /\ last'.calls = {}
           /\ UNCHANGED <<disk, rows, history, selectionAnchor,
                          selectionCurrent>>]_vars

\* C13 witness: the prompt of a batch over displayed rows was answered no
C13_Witness ==
    /\ last.op \in BatchOps
    /\ ~last.info.confirmed
    /\ HasSelection
    /\ last.info.range.endRow < Len(last.info.shown)
    /\ disk = last.before.disk

\* C14: when the selected column range includes the key column, alone or
\* together with language columns, batchDelete deletes every selected row
\* as a whole and issues no clear-value store call; cell-clear is performed
\* only when the selection covers language columns only.
C14_RowDeleteTakesPrecedence ==
    last.op \in BatchOps =>
        IF last.info.range.startCol <= 0
        THEN /\ last.op = "batchDelete"
             /\ \A call \in last.calls : call.cmd = "batch_remove_keys"
             /\ (Acted /\ ~last.failed) =>
                   \A p \in Paths : FileKeys(disk[p]) \cap BatchKeys = {}
        ELSE /\ last.op = "batchClear"
             /\ \A call \in last.calls : call.cmd = "batch_update_resources"
             /\ \A p \in Paths : KeySeq(disk[p]) = KeySeq(last.before.disk[p])

\* C14 witness: the key column and a language column were selected together
\* and the rows were deleted
C14_Witness ==
    /\ last.op = "batchDelete"
    /\ Acted
    /\ ~last.failed
    /\ last.info.range.startCol = 0
    /\ last.info.range.endCol >= 1
    /\ \A p \in Paths : FileKeys(disk[p]) \cap BatchKeys = {}

\* The last handler was an undo, without a rejected call, of a Batch whose
\* children are all Delete
UndidDeletes ==
    /\ last.op = "undo"
    /\ ~last.failed
    /\ last.act.type = "batch"
    /\ Len(last.act.actions) > 0
    /\ \A i \in 1..Len(last.act.actions) : last.act.actions[i].type = "delete"

\* Each child Delete reversed by itself with insertKeyAt, last child first
\* (the 'delete' case of performUndoAction, as in the sequential fallback)
ReversedOneByOne(actions, d) == UndoChildren(actions, Len(actions), d, {}).disk

\* Each child Delete reversed by itself with insertKeyAt, the child of the
\* lowest recorded position in the file first
RECURSIVE InsertEachAscending(_, _)
InsertEachAscending(file, items) ==
    IF items = {} THEN file
    ELSE LET it == FirstItem(items)
         IN InsertEachAscending(
                InsertKeyAt(file, it.key, it.value, it.index).file,
                items \ {it})

ChildItems(actions, f) ==
    {[key |-> actions[i].key, value |-> Val(actions[i].row, f.lang),
      index |-> actions[i].indices[f.path]] : i \in 1..Len(actions)}

\* In file p the recorded positions fall from each child to the next
PositionsDescend(actions, p) ==
    \A i, j \in 1..Len(actions) :
        i < j => actions[i].indices[p] > actions[j].indices[p]

DeletesIn(log) ==
    {log[i] : i \in {j \in 1..Len(log) : log[j].type = "delete"}}
    \cup UNION {{log[i].actions[n] :
                    n \in {m \in 1..Len(log[i].actions) :
                              log[i].actions[m].type = "delete"}} :
                i \in {j \in 1..Len(log) : log[j].type = "batch"}}

\* C16: every Delete action in history, recorded by deleteKey or as a child
\* of a batchDelete Batch, carries in indices the storage position the store
\* reported for every file of the group.
C16_DeletesCarryPositions ==
    /\ \A a \in DeletesIn(history) :
          /\ DOMAIN a.indices = Paths
          /\ \A p \in Paths : a.indices[p] >= 0
    /\ (last.op \in {"delete", "batchDelete"} /\ Acted /\ ~last.failed) =>
          \A a \in DeletesIn(<<last.act>>) : \A p \in Paths :
             a.indices[p] = IndexOf(last.before.disk[p], a.key) - 1

\* C16 witness: a batch delete recorded two keys that stand at different
\* positions in the two files
C16_Witness ==
    /\ last.op = "batchDelete"
    /\ ~last.failed
    /\ Len(history) > 0
    /\ history[Len(history)] = last.act
    /\ Cardinality(DeletesIn(history)) = 2
    /\ \E a \in DeletesIn(history) :
          a.indices["en.resx"] # a.indices["fr.resx"]

\* C17: deleteKey(row) followed by undo() restores, in every file, the value
\* the key had on disk immediately before the deletion ("" for a language
\* where it had none).
C17_DeleteUndoRestoresValue ==
    (CleanUndo /\ last.act.type = "delete") =>
        \A p \in Paths :
           /\ HasKey(disk[p], last.act.key)
           /\ ValueOf(disk[p], last.act.key)
                 = ValueOf(last.snap.disk[p], last.act.key)

\* The deletions of rows
RowDeletes == {"delete", "batchDelete"}

\* C18: after any successful delete of rows, by deleteKey as well as by the
\* batch row delete, the selection is empty (anchor and current are null).
C18_DeleteEmptiesSelection ==
    [][(/\ ops' # ops
        /\ last'.op \in RowDeletes
        /\ last'.calls # {}
        /\ ~last'.failed)
       => (selectionAnchor' = NoPoint /\ selectionCurrent' = NoPoint)]_vars

\* The handlers that edit the files
EditOps == {"update", "rename", "add", "clear", "delete", "batchDelete",
            "batchClear"}
\* log2 is log1 with one action appended at the tail
AppendedAtTail(log1, log2) ==
    /\ Len(log2) = Len(log1) + 1
    /\ SubSeq(log2, 1, Len(log1)) = log1
\* log2 is log1 without its tail action
TailRemoved(log1, log2) ==
    /\ Len(log1) > 0
    /\ log2 = SubSeq(log1, 1, Len(log1) - 1)

\* C19: the history log changes only by appending one action at the tail, in
\* a successful edit, or by removing the tail action, in a successful undo;
\* nothing reorders, edits or re-inserts entries.
C19_HistoryAppendOrPop ==
    [][history' # history =>
          \/ /\ AppendedAtTail(history, history')
             /\ last'.op \in EditOps
             /\ ~last'.failed
             /\ history'[Len(history')] = last'.act
          \/ /\ TailRemoved(history, history')
             /\ last'.op = "undo"
             /\ ~last'.failed]_vars

\* C20: while the store calls of an undo are in flight, no store call of a
\* new edit is issued.
C20_NoEditDuringUndo ==
    [][~(/\ undoing # NotUndoing
         /\ last' # last
         /\ last'.op \in EditOps
         /\ last'.calls # {})]_vars

\* The keys of a snapshot are pairwise different
UniqueKeys(rs) ==
    \A i, j \in 1..Len(rs) : rs[i].key = rs[j].key => i = j

\* C21: in every reachable state no two rows of the RowTable snapshot have
\* the same key, also after an optimistic rename and after addKey.
C21_RowKeysUnique == UniqueKeys(rows)

\* C22: in every reachable state the resolved range of a non-null selection
\* lies inside the displayed rows and the columns:
\* 0 <= startRow <= endRow < number of displayed rows and
\* 0 <= startCol <= endCol <= number of language files.
C22_RangeInsideDisplayedRows ==
    HasSelection =>
        /\ 0 <= selectionRange.startRow
        /\ selectionRange.startRow <= selectionRange.endRow
        /\ selectionRange.endRow < Len(filteredRows)
        /\ 0 <= selectionRange.startCol
        /\ selectionRange.startCol <= selectionRange.endCol
        /\ selectionRange.endCol <= Len(GroupFiles)

\* C23 as stated: the selection is null whenever no drag is active.
C23_NullWhenNoDrag == ~isMouseDown => ~HasSelection

\* C23: the pointer-up that ends a drag only clears the drag flag and leaves
\* anchor and current as they are; a selection becomes null only by a
\* confirmed batch row delete whose store calls succeeded.
C23_SelectionOutlivesDrag ==
    [][/\ (isMouseDown /\ ~isMouseDown') =>
             /\ HasSelection'
             /\ selectionAnchor' = selectionAnchor
             /\ selectionCurrent' = selectionCurrent
       /\ (HasSelection /\ ~HasSelection') =>
             /\ last' # last
             /\ last'.op = "batchDelete"
             /\ last'.calls # {}
             /\ ~last'.failed]_vars

\* C23 witness: a drag over two cells has ended and its selection is kept
C23_Witness ==
    /\ ~isMouseDown
    /\ drags > 0
    /\ HasSelection
    /\ selectionAnchor # selectionCurrent

\* C24: a pointer-down on a cell sets anchor and current to one and the same
\* displayed cell and starts a drag; a pointer-enter changes current only
\* while the button is held and never the anchor; after a pointer-up no
\* pointer-enter changes the selection until the next pointer-down.
C24_DragSelection ==
    [][/\ drags' # drags =>
             /\ isMouseDown'
             /\ selectionAnchor' \in ShownCells
             /\ selectionCurrent' = selectionAnchor'
       /\ (drags' = drags /\ last' = last) =>
             /\ selectionAnchor' = selectionAnchor
             /\ selectionCurrent' # selectionCurrent =>
                   isMouseDown /\ isMouseDown' /\ selectionCurrent' \in ShownCells
       /\ (~isMouseDown /\ drags' = drags /\ last' = last) =>
             /\ selectionAnchor' = selectionAnchor
             /\ selectionCurrent' = selectionCurrent]_vars

\* C24 witness: the button is still held and the pointer has entered a cell
\* of another row and another column than the anchor
C24_Witness ==
    /\ isMouseDown
    /\ HasSelection
    /\ selectionAnchor.rowIdx # selectionCurrent.rowIdx
    /\ selectionAnchor.colIdx # selectionCurrent.colIdx

\* x lies between a and b, whichever of the two is the smaller
Between(x, a, b) == (a <= x /\ x <= b) \/ (b <= x /\ x <= a)
\* The cell coordinates isCellSelected is asked about: the displayed cells
\* and a margin around them
ProbedRows == -1..Len(KeyOrder)
ProbedCols == -1..(Len(GroupFiles) + 1)

\* C25: for any anchor and current the resolved range is
\* [min row, max row] x [min col, max col] of the two cells and
\* isCellSelected(r, c) is true exactly for the cells of that inclusive
\* rectangle; without a selection it is false for every cell.
C25_RangeIsBoundingRectangle ==
    /\ HasSelection =>
          /\ selectionRange.startRow <= selectionRange.endRow
          /\ selectionRange.startCol <= selectionRange.endCol
          /\ {selectionRange.startRow, selectionRange.endRow}
                = {selectionAnchor.rowIdx, selectionCurrent.rowIdx}
          /\ {selectionRange.startCol, selectionRange.endCol}
                = {selectionAnchor.colIdx, selectionCurrent.colIdx}
          /\ \A r \in ProbedRows, c \in ProbedCols :
                isCellSelected(r, c) <=>
                   /\ Between(r, selectionAnchor.rowIdx, selectionCurrent.rowIdx)
                   /\ Between(c, selectionAnchor.colIdx, selectionCurrent.colIdx)
    /\ ~HasSelection =>
          \A r \in ProbedRows, c \in ProbedCols : ~isCellSelected(r, c)

\* C25 witness: a drag upwards and to the left, so that the anchor is the
\* bottom right corner of a rectangle of at least four cells
C25_Witness ==
    /\ HasSelection
    /\ selectionAnchor.rowIdx > selectionCurrent.rowIdx
    /\ selectionAnchor.colIdx > selectionCurrent.colIdx
    /\ isCellSelected(selectionCurrent.rowIdx, selectionAnchor.colIdx)

\* The row passes the filters that are active
MatchesFilters(r) ==
    /\ showEmptyOnly => \E l \in Langs : Val(r, l) \in {"", " "}
    /\ filterText # "" =>
          \/ Includes(Lower(r.key), Lower(filterText))
          \/ \E l \in DOMAIN r.values :
                Includes(Lower(r.values[l]), Lower(filterText))
\* The indices of the snapshot rows that pass, and the n-th of them
MatchingIdx == {i \in 1..Len(rows) : MatchesFilters(rows[i])}
NthMatching(n) ==
    CHOOSE i \in MatchingIdx :
        Cardinality({j \in MatchingIdx : j < i}) = n - 1

\* C26: changing the filter text or toggling show-empty-only never changes
\* the RowTable snapshot, the history or any file, and the displayed rows are
\* always exactly the rows of the snapshot that match the active filters, in
\* snapshot order.
C26_FilterIsPureView ==
    /\ [](/\ Len(filteredRows) = Cardinality(MatchingIdx)
          /\ \A n \in 1..Len(filteredRows) :
                filteredRows[n] = rows[NthMatching(n)])
    /\ [][(filterText' # filterText \/ showEmptyOnly' # showEmptyOnly) =>
             /\ rows' = rows
             /\ history' = history
             /\ disk' = disk]_vars

\* C26 witness: both filters are active and hide some rows of the snapshot
\* but not all
C26_Witness ==
    /\ showEmptyOnly
    /\ filterText # ""
    /\ Len(filteredRows) > 0
    /\ Len(filteredRows) < Len(rows)
    /\ Len(FilteredRowsOf(rows, FALSE, filterText)) > Len(filteredRows)

\* The last handler was an undo, without a rejected call, of a Batch whose
\* children are all Update
UndidUpdates ==
    /\ last.op = "undo"
    /\ ~last.failed
    /\ last.act.type = "batch"
    /\ Len(last.act.actions) > 0
    /\ \A i \in 1..Len(last.act.actions) : last.act.actions[i].type = "update"

\* C27: undoing a Batch whose children are all Update through one combined
\* batchSetValues call per file leaves every file as reversing each child
\* Update by itself, last child first, does.
C27_CombinedUpdatesAsReverseOrder ==
    UndidUpdates =>
        disk = ReversedOneByOne(last.act.actions, last.before.disk)

\* The last handler was an undo of a Batch whose children are neither all
\* Delete nor all Update
UndidMixed ==
    /\ last.op = "undo"
    /\ last.act.type = "batch"
    /\ IsMixed(last.act.actions)

\* Child i and then the children before it reversed one after the other,
\* each on the files the one before left, up to the first that fails:
\* the files, the calls issued and the child that failed (0 if none)
RECURSIVE LastChildFirst(_, _, _)
LastChildFirst(actions, i, d) ==
    IF i = 0 THEN [disk |-> d, calls |-> {}, stopped |-> 0]
    ELSE LET r == PerformUndoAction(actions[i], d, {})
         IN IF r.threw
            THEN [disk |-> r.disk, calls |-> r.calls, stopped |-> i]
            ELSE LET rest == LastChildFirst(actions, i - 1, r.disk)
                 IN [disk |-> rest.disk, calls |-> r.calls \cup rest.calls,
                     stopped |-> rest.stopped]

\* C28: undoing a Batch whose children are neither all Delete nor all Update
\* reverses the children one at a time, last child first, each on the files
\* the reversal before it left, and stops at the first child whose reversal
\* fails: no call of an earlier child is issued and the Batch stays on the log.
C28_MixedBatchSequential ==
    UndidMixed =>
        LET want == LastChildFirst(last.act.actions, Len(last.act.actions),
                                   last.before.disk)
        IN /\ disk = want.disk
           /\ last.calls = want.calls
           /\ last.failed = (want.stopped # 0)
           /\ history = IF want.stopped # 0 THEN last.before.history
                        ELSE SubSeq(last.before.history, 1,
                                    Len(last.before.history) - 1)

\* C28 witness: the last child was reversed, the first child's reversal
\* failed, and the Batch is still on the log
C28_Witness ==
    /\ UndidMixed
    /\ last.failed
    /\ disk # last.before.disk
    /\ history = last.before.history
    /\ LastChildFirst(last.act.actions, Len(last.act.actions),
                      last.before.disk).stopped = 1

\* The value the grid displayed in the targeted cell (key, language) when
\* the batch clear started
ShownValue(cell) ==
    LET r == CHOOSE i \in 1..Len(last.info.shown) :
                 last.info.shown[i].key = cell[1]
    IN Val(last.info.shown[r], cell[2])
\* The targeted cells that were not empty
NonEmptyCells == {cell \in BatchCells : ShownValue(cell) # ""}

\* C29: the batch cell-clear leaves out the targeted cells that are already
\* empty: confirmation is asked only if some targeted cell is not empty; a
\* confirmed clear sends each file only the keys of its non-empty targeted
\* cells and pushes exactly one Batch with one
\* Update{oldValue = the cell's value, newValue = ""} per non-empty cell.
C29_ClearSkipsEmptyCells ==
    last.op = "batchClear" =>
        /\ NonEmptyCells # {}
        /\ ~last.info.confirmed =>
              last.calls = {} /\ history = last.before.history
        /\ last.info.confirmed =>
              /\ last.calls =
                    {[cmd |-> "batch_update_resources", path |-> f.path,
                      key |-> "",
                      arg |-> [k \in {cell[1] : cell \in
                                        {n \in NonEmptyCells : n[2] = f.lang}}
                               |-> ""]] :
                       f \in {g \in Range(GroupFiles) :
                                \E n \in NonEmptyCells : n[2] = g.lang}}
              /\ last.failed => history = last.before.history
              /\ ~last.failed =>
                    /\ history = Append(last.before.history, last.act)
                    /\ last.act.type = "batch"
                    /\ Len(last.act.actions) = Cardinality(NonEmptyCells)
                    /\ \A cell \in NonEmptyCells :
                          \E i \in 1..Len(last.act.actions) :
                             last.act.actions[i] =
                                [type |-> "update", key |-> cell[1],
                                 lang |-> cell[2],
                                 oldValue |-> ShownValue(cell),
                                 newValue |-> ""]

\* C29 witness: a confirmed clear over at least three cells, one of them
\* already empty, has pushed a Batch of at least two Updates
C29_Witness ==
    /\ last.op = "batchClear"
    /\ last.info.confirmed
    /\ ~last.failed
    /\ Cardinality(NonEmptyCells) >= 2
    /\ Cardinality(BatchCells) > Cardinality(NonEmptyCells)
    /\ history # <<>>
    /\ history[Len(history)] = last.act

\* C30: after a successful addKey(key) every file of the group holds the key
\* with an empty value as the last entry of its key ordering, whatever
\* position the key may have had before a deletion; exactly one Add{key} is
\* appended to history, and the RowTable is reloaded and has a row for the key.
C30_AddKeyAppends ==
    (last.op = "add" /\ ~last.failed) =>
        /\ \A p \in Paths :
              disk[p] = Append(last.before.disk[p],
                               [key |-> last.act.key, value |-> ""])
        /\ history = Append(last.before.history,
                            [type |-> "add", key |-> last.act.key])
        /\ last.reload
        /\ rows = Loaded(disk)
        /\ \E i \in 1..Len(rows) :
              /\ rows[i].key = last.act.key
              /\ \A l \in Langs : Val(rows[i], l) = ""

\* C30 witness: the key added had just been deleted from a position that is
\* not the end of the file
C30_Witness ==
    /\ last.op = "add"
    /\ ~last.failed
    /\ Len(last.before.history) > 0
    /\ LET d == last.before.history[Len(last.before.history)]
       IN /\ d.type = "delete"
          /\ d.key = last.act.key
          /\ \E p \in Paths : d.indices[p] < Len(disk[p]) - 1


\* The last step was the end of a handleUndo that removed an entry of the log
UndoPopped == last.op \in {"undoEnd", "undoAgainEnd"} /\ last.info[1]

\* C31: every action removed from the log has had its reversal performed
\* exactly once.  Two handleUndo invocations in flight together never hold
\* the same entry of the log, and an invocation that removes an entry removes
\* the entry it reversed.
C31_PoppedReversedOnce ==
    /\ (undoing # NotUndoing /\ undoingAgain # NotUndoing)
          => undoing.top # undoingAgain.top
    /\ UndoPopped => last.info[2] = Len(last.before.history)

\* C32: an undo reverses the popped action against the files of the group in
\* which the action was recorded: the store calls of a handleUndo go to the
\* files of the group that was shown when the action on top was recorded.
C32_UndoInRecordedGroup ==
    (last.op = "undo" /\ last.calls # {}) => last.snap.group = group

\* The last handler was a committed cell edit whose store calls, if any, all
\* succeeded, made while a filter was active
EditedUnderFilter ==
    /\ last.op \in {"update", "rename"}
    /\ ~last.failed
    /\ (showEmptyOnly \/ filterText # "")

\* C33: an optimistic cell edit or rename made while a filter is active
\* changes only the edited row of the snapshot: the snapshot keeps its length,
\* the rows hidden by the filter included, and at most one row differs.
C33_EditKeepsHiddenRows ==
    EditedUnderFilter =>
        /\ Len(rows) = Len(last.before.rows)
        /\ Cardinality({i \in 1..Len(rows) :
                           rows[i] # last.before.rows[i]}) <= 1

\* C34: for an updateCell or renameKey made while a filter is active, the
\* recorded Update.oldValue / Rename.oldKey and the old key passed to the
\* rename store calls are those of the row the user edited, the row at that
\* index of the displayed sequence.
C34_OldValuesOfEditedRow ==
    (/\ last.op \in {"update", "rename"}
     /\ last.calls # {}
     /\ (showEmptyOnly \/ filterText # ""))
    => IF last.op = "rename"
       THEN /\ last.act.oldKey = last.info.shown.key
            /\ \A call \in last.calls : call.key = last.info.shown.key
       ELSE last.act.oldValue = Val(last.info.shown, last.info.column)

\* The last handler was a deleteKey, batchDelete, cell clear or undo whose
\* store calls all succeeded
Unreloaded ==
    /\ last.op \in {"delete", "batchDelete", "clear", "batchClear", "undo"}
    /\ last.calls # {}
    /\ ~last.failed

\* C35: after a successful deleteKey, batchDelete, cell clear or undo, once a
\* change event has been delivered (the debounce timer is pending), the
\* RowTable eventually equals the merged on-disk contents of the group's
\* files, sorted by key, whether or not further operations occur.
C35_EventuallyInSync ==
    (Unreloaded /\ debounceTimer # NoTimer)
        ~> (rows = SortByKey(LoadRows(disk)))

\* C35 witness: the debounced reload ran after a successful operation that
\* had left the snapshot stale, and it changed the snapshot
C35_Witness ==
    /\ last.op = "load"
    /\ watch.reloads > 0
    /\ Len(history) > 0
    /\ last.before.rows # rows
    /\ last.before.rows # <<>>
    /\ rows = SortByKey(LoadRows(disk))

\* The requests that have not been answered to the grid yet
InFlight(ls) == {i \in 1..Len(ls) : ls[i].stage # "delivered"}

\* The most recently issued load for group g
NewestLoad(g) ==
    CHOOSE i \in 1..Len(loads) :
        /\ loads[i].group = g
        /\ \A j \in 1..Len(loads) : loads[j].group = g => j <= i

\* C36: when load requests overlap, the RowTable ends with the result of the
\* most recently issued load for the current group: once every request has
\* been answered and the last change of the snapshot was such an answer, the
\* snapshot is the answer to the newest request for the group shown.
C36_NewestLoadWins ==
    (/\ last.op = "loaded"
     /\ InFlight(loads) = {}
     /\ \E i \in 1..Len(loads) : loads[i].group = group)
    => rows = loads[NewestLoad(group)].data

\* C37: after the grid's group has changed, no reload is triggered by a change
\* event or a debounce timer of the previous group's subscription: no timer
\* started by the listener of the previous group runs loadData().
C37_NoReloadByPreviousGroup == last.op # "staleLoad"

\* Two edits of one cell, the second issued while the first awaited its
\* answer, have both succeeded, and both have been undone since
BothUndone ==
    /\ Len(edits) = 2
    /\ \A i \in 1..2 : edits[i].stage = "answered"
    /\ edits[1].key = edits[2].key
    /\ edits[1].lang = edits[2].lang
    /\ edits[2].overlaps
    /\ history = <<>>
    /\ last.op = "undo"
    /\ ~last.failed

\* C38: for two updateCell edits of the same cell issued without waiting for
\* the first to complete, if both succeed then two subsequent undo() calls
\* restore the cell's on-disk value to what it was before the first edit,
\* whatever the order in which the store handles and answers the two writes.
C38_TwoUndosRestoreCell ==
    BothUndone => ValueOf(disk[edits[1].path], edits[1].key) = edits[1].was

\* C39: in every reachable state the selected group is either null or a
\* member of the working-set group list: some group of the list has its name
\* and directory.
C39_SelectedInWorkingSet ==
    \/ selectedGroup = NoGroup
    \/ \E i \in 1..Len(groups) : groups[i].name = selectedGroup.name

=============================================================================
